---- MODULE Spec2Model ----
(***************************************************************************)
(* Embedding-bag forward / backward kernels and the min/max reduction of   *)
(* csrc/aten/operators, as state machines.                                 *)
(*                                                                         *)
(* Tensors are flat arrays indexed from 0 (functions over 0..n-1), read    *)
(* and written with the pointer arithmetic of the source (row * stride +   *)
(* feature).  Floating point values are exact rationals <<num, den>>.      *)
(***************************************************************************)
EXTENDS Integers, Sequences, FiniteSets, TLC

(***************************************************************************)
(* Program constants                                                       *)
(***************************************************************************)
MODE_SUM == 0
MODE_MEAN == 1
MODE_MAX == 2
NROWS_PER_THREAD == 10
\* group_size of krn_partials_per_segment / krn_partial_segment_offset
KrnGroupSize == 32
\* padding_idx handed to the kernel by embedding_bag_backward_dpcpp_sum_avg
SumAvgPaddingIdx == -1

(***************************************************************************)
(* Bounds of the model                                                     *)
(***************************************************************************)
\* rows of the weight table (num_weights)
NumWeights == 2
\* feature columns (grad.size(1), = stride of the contiguous grad_weight)
Stride == 2
\* dpcppMaxWorkGroupSize(dev_id) of the modelled device
MaxWorkGroupSize == 3
\* longest run of one index value in a sorted stream handed to the kernel
MaxRun == 11
\* longest index stream of a full forward/backward call
MaxLen == 3
\* most bags of a call
MaxBags == 2
\* longest run of one index value when the work items of sum_and_scatter
\* are interleaved
MaxScatterRun == 2
\* most elements of a min/max reduction, and the threads reducing them
MaxElems == 3
NumThreads == 2
\* the grid of EmbeddingBag_updateOutputKernel, scaled down: the number of
\* work-groups in dimension 0 (1024 in the source) and the number of work
\* items of a work-group (256 in the source)
FwdGroupRange == 2
FwdWorkGroupSize == 16

(***************************************************************************)
(* Values                                                                  *)
(***************************************************************************)
\* content of an int64 cell of an at::empty buffer that was never written
UninitInt == -777777

Abs(x) == IF x < 0 THEN -x ELSE x

RECURSIVE GCD(_, _)
GCD(a, b) == IF b = 0 THEN a ELSE GCD(b, a % b)

\* n/d in lowest terms with d > 0
Rat(n, d) ==
    LET g == GCD(Abs(n), Abs(d))
        s == IF d < 0 THEN -1 ELSE 1
    IN  <<(s * n) \div g, (s * d) \div g>>

\* a floating point value that is no number: the result of x / 0
NotFinite == <<1, 0>>
\* content of a floating point cell of an at::empty buffer never written
UninitVal == <<0, 0>>
IsNum(x) == x[2] > 0
Zero == <<0, 1>>
One == <<1, 1>>
FromInt(i) == <<i, 1>>

RatAdd(x, y) ==
    IF IsNum(x) /\ IsNum(y)
    THEN Rat(x[1] * y[2] + y[1] * x[2], x[2] * y[2])
    ELSE NotFinite

RatMul(x, y) ==
    IF IsNum(x) /\ IsNum(y) THEN Rat(x[1] * y[1], x[2] * y[2]) ELSE NotFinite

RatDiv(x, y) ==
    IF IsNum(x) /\ IsNum(y) /\ y[1] # 0
    THEN Rat(x[1] * y[2], x[2] * y[1])
    ELSE NotFinite

\* the largest value of a 32-bit int
IntMax == 2147483647

\* a value stored in a 32-bit int variable (one wrap around)
ToInt(x) ==
    IF x > IntMax THEN x - IntMax - IntMax - 2
    ELSE IF x < -IntMax - 1 THEN x + IntMax + IntMax + 2
    ELSE x

\* CeilDiv of utils/DPCPP.h, on non-negative operands
CeilDiv(a, b) == (a + b - 1) \div b

Min(a, b) == IF a < b THEN a ELSE b

\* an array of n cells
Arr(n) == 0 .. (n - 1)
Numel(a) == Cardinality(DOMAIN a)

\* an optional tensor argument
Undefined == [defined |-> FALSE, data |-> <<>>]
Defined(a) == [defined |-> TRUE, data |-> a]

\* an embedding_bag call whose tensor arguments pass the checks
ValidArgs ==
    [op |-> "embedding_bag", indices_dtype |-> "Long", offsets_dtype |-> "Long",
     weight_device |-> "xpu", indices_device |-> "xpu", offsets_device |-> "xpu",
     is_complex |-> FALSE]

VARIABLES
    \* arguments of the call
    weight, indices, offsets, per_sample_weights, mode, scale_grad_by_freq,
    grad, padding_idx,
    \* the operator called, and the dtypes and devices of its tensor arguments
    args,
    \* results of _embedding_bag_dpcpp
    output, offset2bag, bag_size, max_indices,
    \* embedding_bag_backward_dpcpp_sum_avg
    sorted_indices, orig_indices, count,
    \* embedding_bag_backward_dpcpp_kernel
    segment_offsets, num_of_segments, partials_per_segment,
    partials_per_segment_offset, num_of_partial_segments,
    partial_segment_offset, grad_weight_per_segment, grad_weight,
    \* the bags whose bag_size was read as a divisor
    divisors,
    \* work items of the running kernel that have finished, and per cell of
    \* grad_weight the work items that stored into it
    items_done, writers,
    \* position of the call
    pc,
    \* the min/max reduction: the input, the elements no thread has taken,
    \* the accumulator of each thread, and the threads not yet combined away
    mm_input, mm_pending, mm_acc, mm_alive,
    \* the all/any reduction: which of the two, the input, the elements no
    \* thread has taken, the accumulator of each thread, the threads not yet
    \* combined away, and the result tensor
    \* (argmax and argmin store their result in lg_result too)
    lg_op, lg_input, lg_pending, lg_acc, lg_alive, lg_result,
    \* the kernels submitted to the queue, in order, and the failed check
    submitted, error,
    \* the index variables of one work item of a backward kernel, each as the
    \* int the code declares and as the exact integer
    ix

callVars == <<weight, indices, offsets, per_sample_weights, mode,
              scale_grad_by_freq, grad, padding_idx, args>>
fwdVars == <<output, offset2bag, bag_size, max_indices>>
sortVars == <<sorted_indices, orig_indices, count>>
segVars == <<segment_offsets, num_of_segments>>
partVars == <<partials_per_segment, partials_per_segment_offset,
              num_of_partial_segments, partial_segment_offset>>
accVars == <<grad_weight_per_segment, grad_weight, divisors>>
itemVars == <<items_done, writers>>
mmVars == <<mm_input, mm_pending, mm_acc, mm_alive>>
lgVars == <<lg_op, lg_input, lg_pending, lg_acc, lg_alive, lg_result>>

vars == <<callVars, fwdVars, sortVars, segVars, partVars, accVars, itemVars,
          pc, mmVars, lgVars, submitted, error, ix>>

numel == Numel(sorted_indices)

(***************************************************************************)
(* embedding_bag_backward_dpcpp_kernel: segment discovery                  *)
(***************************************************************************)
\* std::adjacent_difference with the != functor: the first output element
\* is the first source element
AdjacentDifference(s) ==
    [i \in DOMAIN s |->
        IF i = 0 THEN s[0] ELSE IF s[i] # s[i - 1] THEN 1 ELSE 0]

ForceFirst_omitted(d) == d

\* dummy[0] = 1
ForceFirst(d) == [d EXCEPT ![0] = 1]

\* transform(dummy, iota, [](d, idx) { return d ? idx : -1; })
MarkStarts(d) == [i \in DOMAIN d |-> IF d[i] # 0 THEN i ELSE -1]

\* copy_if(x != -1) into an uninitialised buffer of n cells, order kept
CopyIf(idx, n) ==
    LET kept == {i \in DOMAIN idx : idx[i] # -1}
        rank(i) == Cardinality({j \in kept : j < i})
    IN  [k \in Arr(n) |->
            IF k < Cardinality(kept)
            THEN idx[CHOOSE i \in kept : rank(i) = k]
            ELSE UninitInt]

CopyIfCount(idx) == Cardinality({i \in DOMAIN idx : idx[i] # -1})

SegmentDiscovery ==
    /\ pc = "segments"
    /\ LET idx_tensor == MarkStarts(ForceFirst(AdjacentDifference(sorted_indices)))
       IN  /\ segment_offsets' = CopyIf(idx_tensor, numel)
           /\ num_of_segments' = CopyIfCount(idx_tensor)
    /\ grad_weight' = [c \in Arr(NumWeights * Stride) |-> Zero]
    /\ writers' = [c \in Arr(NumWeights * Stride) |-> {}]
    /\ pc' = "partials"
    /\ UNCHANGED <<callVars, fwdVars, sortVars, partVars,
                   grad_weight_per_segment, divisors, items_done, mmVars, lgVars, ix, error>>
    /\ submitted' = Append(submitted, "segment_offsets")

(***************************************************************************)
(* krn_partials_per_segment                                                *)
(***************************************************************************)
KrnItems(n) == Arr(CeilDiv(n, KrnGroupSize) * KrnGroupSize)

partials_item_floor(id, segs, nseg, n) ==
    LET idx_start == segs[id]
        idx_end == IF id = nseg - 1 THEN n ELSE segs[id + 1]
        size == idx_end - idx_start
    IN  size \div NROWS_PER_THREAD

partials_item(id, segs, nseg, n) ==
    LET idx_start == segs[id]
        idx_end == IF id = nseg - 1 THEN n ELSE segs[id + 1]
        size == idx_end - idx_start
    IN  CeilDiv(size, NROWS_PER_THREAD)

krn_partials_per_segment(segs, nseg, n) ==
    [id \in {i \in KrnItems(nseg) : i < nseg} |-> partials_item(id, segs, nseg, n)]

PartialsPerSegment ==
    /\ pc = "partials"
    /\ partials_per_segment' =
           krn_partials_per_segment(segment_offsets, num_of_segments, numel)
    /\ pc' = "scan"
    /\ UNCHANGED <<callVars, fwdVars, sortVars, segVars,
                   partials_per_segment_offset, num_of_partial_segments,
                   partial_segment_offset, accVars, itemVars, mmVars, lgVars, ix, error>>
    /\ submitted' = Append(submitted, "krn_partials_per_segment")

(***************************************************************************)
(* exclusive_scan and the total number of partial segments                 *)
(***************************************************************************)
\* the scan that includes each element in its own prefix
inclusive_scan(a, init) ==
    LET f[i \in DOMAIN a] == IF i = 0 THEN init + a[0] ELSE f[i - 1] + a[i]
    IN  f

exclusive_scan(a, init) ==
    LET f[i \in DOMAIN a] == IF i = 0 THEN init ELSE f[i - 1] + a[i - 1]
    IN  f

\* a buffer of one more slot than the partial segments written into it
TotalPartials_one_more(pps, scan, nseg) == ToInt(pps[nseg - 1] + scan[nseg - 1]) + 1

TotalPartials(pps, scan, nseg) == ToInt(pps[nseg - 1] + scan[nseg - 1])

ExclusiveScan ==
    /\ pc = "scan"
    /\ LET scan == exclusive_scan(partials_per_segment, 0)
       IN  /\ partials_per_segment_offset' = scan
           /\ num_of_partial_segments' =
                  TotalPartials(partials_per_segment, scan, num_of_segments)
    /\ pc' = "psoffset"
    /\ UNCHANGED <<callVars, fwdVars, sortVars, segVars, partials_per_segment,
                   partial_segment_offset, accVars, itemVars, mmVars, lgVars, ix, error>>
    /\ submitted' = Append(submitted, "exclusive_scan")

(***************************************************************************)
(* krn_partial_segment_offset                                              *)
(***************************************************************************)
\* the value work item id stores in its i-th iteration
partial_start(segment_offset, i) == segment_offset + i * NROWS_PER_THREAD

\* the stores of all work items, applied in the order of their ids, into an
\* uninitialised buffer of np cells
krn_partial_segment_offset(pps, scan, segs, nseg, np) ==
    LET stores(k) == {id \in {i \in KrnItems(nseg) : i < nseg} :
                         k - scan[id] \in 0 .. (pps[id] - 1)}
        last(S) == CHOOSE id \in S : \A other \in S : other <= id
    IN  [k \in Arr(np) |->
            IF stores(k) = {} THEN UninitInt
            ELSE LET id == last(stores(k))
                 IN  partial_start(segs[id], k - scan[id])]

PartialSegmentOffset ==
    /\ pc = "psoffset"
    /\ partial_segment_offset' =
           krn_partial_segment_offset(partials_per_segment,
               partials_per_segment_offset, segment_offsets,
               num_of_segments, num_of_partial_segments)
    /\ pc' = "grad"
    /\ UNCHANGED <<callVars, fwdVars, sortVars, segVars, partials_per_segment,
                   partials_per_segment_offset, num_of_partial_segments,
                   accVars, itemVars, mmVars, lgVars, ix, error>>
    /\ submitted' = Append(submitted, "krn_partial_segment_offset")

(***************************************************************************)
(* The 1-d work-item grid of compute_grad_weight_bags and sum_and_scatter  *)
(***************************************************************************)
stride_warped == CeilDiv(Stride, MaxWorkGroupSize) * MaxWorkGroupSize
group_size == Min(stride_warped, MaxWorkGroupSize)
total_items(nseg) == CeilDiv(nseg * stride_warped, group_size) * group_size

item_id(gid) == ToInt(gid) \div stride_warped
item_feature(gid) == ToInt(gid) % stride_warped
\* the work items that pass both early returns
item_active(gid, nseg) == item_feature(gid) < Stride /\ item_id(gid) < nseg

(***************************************************************************)
(* compute_grad_weight_bags, called with the partial segments as segments  *)
(***************************************************************************)
\* per_sample_weights.stride(0) of the contiguous 1-d tensor
PerSampleWeightsStride == 1

bags_idx_begin(id) == ToInt(partial_segment_offset[id])
bags_idx_end(id) ==
    ToInt(IF id = num_of_partial_segments - 1 THEN numel
          ELSE partial_segment_offset[id + 1])

mode_mean == (mode = MODE_MEAN)

seq_number_of_sorted_position(idx) == ToInt(offset2bag[idx])

\* the bag of the lookup at sorted position idx
seq_number(idx) == ToInt(offset2bag[ToInt(orig_indices[idx])])

\* a kernel pointer is the name of the tensor it points into, or NULL
NULL == "NULL"

Deref(ptr) ==
    CASE ptr = "count" -> count.data
      [] ptr = "per_sample_weights" -> per_sample_weights.data
      [] ptr = "max_indices" -> max_indices
      [] ptr = "offset2bag" -> offset2bag
      [] ptr = "gradOutput" -> grad
      [] ptr = "indices" -> indices
      [] ptr = "weight" -> weight

\* count_data and per_sample_weights_data of the command group: the tensor's
\* data, or the dummy buffer handed over in its place
bags_count_data == IF count.defined THEN "count" ELSE "offset2bag"
bags_per_sample_weights_data ==
    IF per_sample_weights.defined THEN "per_sample_weights" ELSE "gradOutput"

bags_count_ptr_unguarded == bags_count_data

\* count_ptr and per_sample_weights_ptr of the kernel function
bags_count_ptr == IF count.defined THEN bags_count_data ELSE NULL
bags_per_sample_weights_ptr ==
    IF per_sample_weights.defined THEN bags_per_sample_weights_data ELSE NULL

\* the per-sample weight the loop multiplies into scale at position idx
psw_read(idx) == Deref(bags_per_sample_weights_ptr)[idx * PerSampleWeightsStride]

bags_scale(idx) ==
    LET s == IF bags_count_ptr # NULL
             THEN RatDiv(One, FromInt(Deref(bags_count_ptr)[idx])) ELSE One
    IN  IF per_sample_weights.defined THEN RatMul(s, psw_read(idx)) ELSE s

bags_gradient(idx, startFeature) ==
    LET g == grad[ToInt(seq_number(idx) * Stride) + startFeature]
    IN  IF mode_mean THEN RatDiv(g, FromInt(bag_size[seq_number(idx)])) ELSE g

RECURSIVE bags_loop(_, _, _, _)
bags_loop(idx, idx_end, startFeature, acc) ==
    IF idx < idx_end
    THEN bags_loop(idx + 1, idx_end, startFeature,
             RatAdd(acc, RatMul(bags_gradient(idx, startFeature), bags_scale(idx))))
    ELSE acc

\* the cell a work item stores into, and the value
bags_cell(gid) == item_id(gid) * Stride + item_feature(gid)
bags_value(gid) ==
    bags_loop(bags_idx_begin(item_id(gid)), bags_idx_end(item_id(gid)),
              item_feature(gid), Zero)

RECURSIVE bags_all(_, _, _)
bags_all(gid, total, buf) ==
    IF gid = total THEN buf
    ELSE bags_all(gid + 1, total,
             IF item_active(gid, num_of_partial_segments)
             THEN [buf EXCEPT ![bags_cell(gid)] = bags_value(gid)]
             ELSE buf)

\* the bags whose bag_size the loops divide by
bags_divisors ==
    IF mode_mean
    THEN {seq_number(idx) :
            idx \in {i \in Arr(numel) :
                \E gid \in Arr(total_items(num_of_partial_segments)) :
                    /\ item_active(gid, num_of_partial_segments)
                    /\ i >= bags_idx_begin(item_id(gid))
                    /\ i < bags_idx_end(item_id(gid))}}
    ELSE {}

ComputeGradWeightBags ==
    /\ pc = "grad"
    /\ grad_weight_per_segment' =
           bags_all(0, total_items(num_of_partial_segments),
                    [c \in Arr(num_of_partial_segments * Stride) |-> UninitVal])
    /\ divisors' = bags_divisors
    /\ pc' = "scatter"
    /\ UNCHANGED <<callVars, fwdVars, sortVars, segVars, partVars, grad_weight,
                   itemVars, mmVars, lgVars, ix, error>>
    /\ submitted' = Append(submitted, "compute_grad_weight_bags")

(***************************************************************************)
(* sum_and_scatter                                                         *)
(***************************************************************************)
scatter_idx_begin(id) == ToInt(partials_per_segment_offset[id])
scatter_idx_end(id) ==
    ToInt(IF id = num_of_segments - 1 THEN num_of_partial_segments
          ELSE partials_per_segment_offset[id + 1])

RECURSIVE scatter_loop(_, _, _, _)
scatter_loop(idx, idx_end, startFeature, acc) ==
    IF idx < idx_end
    THEN scatter_loop(idx + 1, idx_end, startFeature,
             RatAdd(acc, grad_weight_per_segment[idx * Stride + startFeature]))
    ELSE acc

scatter_target_row_of_id(id) == sorted_indices[id]

\* target_row = input_ptr[segment_offsets_ptr[id]]
scatter_target_row(id) == sorted_indices[segment_offsets[id]]

scatter_stores_padding_too(gid) == item_active(gid, num_of_segments)

\* whether the work item stores at all
scatter_stores(gid) ==
    /\ item_active(gid, num_of_segments)
    /\ scatter_target_row(item_id(gid)) # padding_idx

scatter_cell(gid) == scatter_target_row(item_id(gid)) * Stride + item_feature(gid)
scatter_value(gid) ==
    scatter_loop(scatter_idx_begin(item_id(gid)), scatter_idx_end(item_id(gid)),
                 item_feature(gid), Zero)

scatter_item(gid, gw) ==
    IF scatter_stores(gid) THEN [gw EXCEPT ![scatter_cell(gid)] = scatter_value(gid)]
    ELSE gw

RECURSIVE scatter_all(_, _, _)
scatter_all(gid, total, gw) ==
    IF gid = total THEN gw
    ELSE scatter_all(gid + 1, total, scatter_item(gid, gw))

scatter_items == {gid \in Arr(total_items(num_of_segments)) :
                     item_active(gid, num_of_segments)}

\* the whole kernel, its work items in the order of their ids
SumAndScatter ==
    /\ pc = "scatter"
    /\ items_done = {}
    /\ grad_weight' = scatter_all(0, total_items(num_of_segments), grad_weight)
    /\ writers' = [c \in DOMAIN writers |->
                      {gid \in scatter_items : scatter_stores(gid) /\ scatter_cell(gid) = c}]
    /\ pc' = "done"
    /\ UNCHANGED <<callVars, fwdVars, sortVars, segVars, partVars,
                   grad_weight_per_segment, divisors, items_done, mmVars, lgVars, ix, error>>
    /\ submitted' = Append(submitted, "sum_and_scatter")

\* one work item of the kernel; a work item that takes an early return
\* changes nothing
ScatterWorkItem(gid) ==
    /\ pc = "scatter"
    /\ gid \in scatter_items \ items_done
    /\ grad_weight' = scatter_item(gid, grad_weight)
    /\ writers' = IF scatter_stores(gid)
                  THEN [writers EXCEPT ![scatter_cell(gid)] = @ \cup {gid}]
                  ELSE writers
    /\ items_done' = items_done \cup {gid}
    /\ pc' = IF items_done' = scatter_items THEN "done" ELSE pc
    /\ UNCHANGED <<callVars, fwdVars, sortVars, segVars, partVars,
                   grad_weight_per_segment, divisors, mmVars, lgVars, ix, error>>
    /\ submitted' = IF items_done = {} THEN Append(submitted, "sum_and_scatter") ELSE submitted

(***************************************************************************)
(* EmbeddingBag_accGradParametersKernel_max                                *)
(***************************************************************************)
\* local range of dimension 0
MaxWorkersPerChunk == 64

max_chunksPerBag == CeilDiv(Stride, MaxWorkersPerChunk)
\* grad.size(0)
max_numBags == Numel(grad) \div Stride

max_featureDim(w) == (w[1] % max_chunksPerBag) * MaxWorkersPerChunk + w[2]
max_bag(w) == w[1] \div max_chunksPerBag
max_workers ==
    {w \in Arr(max_numBags * max_chunksPerBag) \X Arr(MaxWorkersPerChunk) :
        max_featureDim(w) < Stride}

max_word_idx(w) == max_indices[max_bag(w) * Stride + max_featureDim(w)]

\* if (word_idx >= 0)
max_contributes(word_idx) == word_idx >= 0

atomicAdd_lost_update(old, val) == val

\* the read-modify-write is one step
atomicAdd(old, val) == RatAdd(old, val)

max_worker_step(w, gw) ==
    IF max_contributes(max_word_idx(w))
    THEN [gw EXCEPT ![max_word_idx(w) * Stride + max_featureDim(w)] =
             atomicAdd(@, grad[max_bag(w) * Stride + max_featureDim(w)])]
    ELSE gw

RECURSIVE max_all(_, _)
max_all(W, gw) ==
    IF W = {} THEN gw
    ELSE LET w == CHOOSE v \in W : TRUE
         IN  max_all(W \ {w}, max_worker_step(w, gw))

\* the whole kernel
MaxBackward ==
    /\ pc = "max"
    /\ grad_weight' = max_all(max_workers, grad_weight)
    /\ pc' = "done"
    /\ UNCHANGED <<callVars, fwdVars, sortVars, segVars, partVars,
                   grad_weight_per_segment, divisors, itemVars, mmVars, lgVars, ix, error>>
    /\ submitted' = Append(submitted, "EmbeddingBag_accGradParametersKernel_max")

\* one worker of the kernel
MaxWorker(w) ==
    /\ pc = "maxscatter"
    /\ w \in max_workers \ items_done
    /\ grad_weight' = max_worker_step(w, grad_weight)
    /\ items_done' = items_done \cup {w}
    /\ pc' = IF items_done' = max_workers THEN "done" ELSE pc
    /\ UNCHANGED <<callVars, fwdVars, sortVars, segVars, partVars,
                   grad_weight_per_segment, divisors, writers, mmVars, lgVars, ix, error>>
    /\ submitted' = IF items_done = {} THEN Append(submitted, "EmbeddingBag_accGradParametersKernel_max") ELSE submitted

(***************************************************************************)
(* EmbeddingBag_updateOutputKernel                                         *)
(***************************************************************************)
\* strides of the contiguous weight table
weight_stride0 == Stride
weight_stride1 == 1

featureSize == Stride
numIndices == Numel(indices)
numBags == Numel(offsets)

workersPerChunk ==
    IF featureSize < 64 /\ featureSize >= 32 THEN 32
    ELSE IF featureSize < 32 THEN 16
    ELSE 64
chunksPerBag == CeilDiv(featureSize, workersPerChunk)
numChunks == numBags * chunksPerBag

\* a worker is <<chunk, local id>>; every chunk is visited by one iteration
\* of one (group, local_id[1]) slice of the grid
fwd_featureDim(w) == (w[1] % chunksPerBag) * workersPerChunk + w[2]
fwd_bag(w) == w[1] \div chunksPerBag
fwd_workers ==
    {w \in Arr(numChunks) \X Arr(workersPerChunk) : fwd_featureDim(w) < featureSize}

fwd_begin(bag) == offsets[bag]
fwd_end(bag) == IF bag < numBags - 1 THEN offsets[bag + 1] ELSE numIndices

RatLess(x, y) == x[1] * y[2] < y[1] * x[2]

max_replaces_on_tie(weightValue, weightFeatMax) ==
    ~RatLess(weightValue, weightFeatMax)

\* weightValue > weightFeatMax
max_replaces(weightValue, weightFeatMax) == RatLess(weightFeatMax, weightValue)

fwd_scale_one(emb) == One

\* per_sample_weights_data and max_indices_data of the command group: the
\* buffer handed to the kernel, or the dummy handler in its place
fwd_per_sample_weights_data ==
    IF per_sample_weights.defined THEN "per_sample_weights" ELSE "weight"
fwd_max_indices_data == IF mode = MODE_MAX THEN "max_indices" ELSE "offset2bag"

\* the branch that stores through max_indices_ptr
fwd_stores_max_indices == (mode = MODE_MAX)

\* the scale of lookup emb in the forward sum
fwd_scale(emb) ==
    IF per_sample_weights.defined
    THEN Deref(fwd_per_sample_weights_data)[emb * PerSampleWeightsStride]
    ELSE One

\* the loop over the lookups of a bag: st holds weightFeatSum, weightFeatMax,
\* maxWord and bag_size_
RECURSIVE fwd_loop(_, _, _, _, _)
fwd_loop(emb, begin, end, featureDim, st) ==
    IF emb < end
    THEN LET weightRow == indices[emb] * weight_stride0
             weightValue == weight[featureDim * weight_stride1 + weightRow]
             takes == mode = MODE_MAX
                      /\ (emb = begin \/ max_replaces(weightValue, st.max))
         IN  fwd_loop(emb + 1, begin, end, featureDim,
                 [sum |-> IF mode = MODE_MAX THEN st.sum
                          ELSE RatAdd(st.sum, RatMul(fwd_scale(emb), weightValue)),
                  max |-> IF takes THEN weightValue ELSE st.max,
                  maxWord |-> IF takes THEN indices[emb] ELSE st.maxWord,
                  bag_size_ |-> st.bag_size_ + 1])
    ELSE st

fwd_result(bag, featureDim) ==
    fwd_loop(fwd_begin(bag), fwd_begin(bag), fwd_end(bag), featureDim,
             [sum |-> Zero, max |-> UninitVal, maxWord |-> -1, bag_size_ |-> 0])

fwd_output_unguarded(bag, featureDim) ==
    LET r == fwd_result(bag, featureDim)
    IN  IF mode = MODE_MEAN THEN RatDiv(r.sum, FromInt(r.bag_size_))
        ELSE IF mode = MODE_SUM THEN r.sum
        ELSE r.max

\* the value stored in output for (bag, featureDim)
fwd_output(bag, featureDim) ==
    LET r == fwd_result(bag, featureDim)
        empty == fwd_end(bag) = fwd_begin(bag)
    IN  IF mode = MODE_MEAN
        THEN IF empty THEN r.sum ELSE RatDiv(r.sum, FromInt(r.bag_size_))
        ELSE IF mode = MODE_SUM THEN r.sum
        ELSE IF mode = MODE_MAX THEN (IF empty THEN Zero ELSE r.max)
        ELSE UninitVal

\* the value stored in bag_size for bag (MEAN only)
fwd_bag_size(bag) ==
    IF fwd_end(bag) = fwd_begin(bag) THEN 0 ELSE fwd_result(bag, 0).bag_size_

\* the stores of all workers; a cell no worker stores into keeps the content
\* of its at::empty allocation
updateOutput_output ==
    [c \in Arr(numBags * featureSize) |->
        LET W == {w \in fwd_workers : fwd_bag(w) * featureSize + fwd_featureDim(w) = c}
        IN  IF W = {} THEN UninitVal
            ELSE LET w == CHOOSE w \in W : TRUE
                 IN  fwd_output(fwd_bag(w), fwd_featureDim(w))]

updateOutput_max_indices ==
    [c \in Arr(numBags * featureSize) |->
        LET W == {w \in fwd_workers : fwd_bag(w) * featureSize + fwd_featureDim(w) = c}
        IN  IF W = {} \/ ~fwd_stores_max_indices THEN UninitInt
            ELSE LET w == CHOOSE w \in W : TRUE
                 IN  fwd_result(fwd_bag(w), fwd_featureDim(w)).maxWord]

updateOutput_bag_size ==
    [b \in Arr(numBags) |->
        IF mode = MODE_MEAN /\ \E w \in fwd_workers : fwd_bag(w) = b
        THEN fwd_bag_size(b)
        ELSE UninitInt]

\* offset2bag_ptr[emb] = bag, by the featureDim = 0 worker of each bag, the
\* workers taken in the order of their chunks
updateOutput_offset2bag ==
    [emb \in Arr(numIndices) |->
        LET W == {w \in fwd_workers :
                     /\ fwd_featureDim(w) = 0
                     /\ fwd_begin(fwd_bag(w)) <= emb
                     /\ emb < fwd_end(fwd_bag(w))}
        IN  IF W = {} THEN UninitInt
            ELSE fwd_bag(CHOOSE w \in W : \A v \in W : v[1] <= w[1])]

forward_check_dtype_only(a) ==
    IF a.indices_dtype # "Long" THEN "embedding_bag_dpcpp: indices is not Long"
    ELSE IF a.offsets_dtype # "Long" THEN "embedding_bag_dpcpp: offsets is not Long"
    ELSE "none"

\* checkScalarType and IsOnSameDevice, in the order of the calls
forward_check(a) ==
    IF a.indices_dtype # "Long" THEN "embedding_bag_dpcpp: indices is not Long"
    ELSE IF a.offsets_dtype # "Long" THEN "embedding_bag_dpcpp: offsets is not Long"
    ELSE IF a.weight_device # a.indices_device
    THEN "embedding_bag_dpcpp: weight and indices are not on one device"
    ELSE IF a.weight_device # a.offsets_device
    THEN "embedding_bag_dpcpp: weight and offsets are not on one device"
    ELSE "none"

\* _embedding_bag_dpcpp
Forward ==
    /\ pc = "forward"
    /\ IF forward_check(args) # "none"
       THEN /\ error' = forward_check(args)
            /\ pc' = "failed"
            /\ UNCHANGED <<fwdVars, submitted>>
       ELSE /\ output' = updateOutput_output
            /\ max_indices' = updateOutput_max_indices
            /\ bag_size' = updateOutput_bag_size
            /\ offset2bag' = updateOutput_offset2bag
            /\ submitted' = Append(submitted, "EmbeddingBag_updateOutputKernel")
            /\ pc' = "backward"
            /\ UNCHANGED error
    /\ UNCHANGED <<callVars, sortVars, segVars, partVars, accVars, itemVars, mmVars, lgVars, ix>>

\* the grid: local range <<workersPerChunk, chunksPerWorkGroup>>, and
\* FwdGroupRange work-groups in dimension 0
chunksPerWorkGroup == FwdWorkGroupSize \div workersPerChunk
\* item.get_group_range()[0] * item.get_global_range()[1]
fwd_step == FwdGroupRange * chunksPerWorkGroup
\* the <<group, local id 1>> slices whose loop reaches the chunk
fwd_visits(chunk) ==
    {g \in Arr(FwdGroupRange) \X Arr(chunksPerWorkGroup) :
        LET chunkOffset == g[1] * chunksPerWorkGroup + g[2]
        IN  chunkOffset <= chunk /\ (chunk - chunkOffset) % fwd_step = 0}
\* the loop of a work item reaches the chunk of w after its earlier chunks
fwd_ready(w) == w[1] < fwd_step \/ <<w[1] - fwd_step, w[2]>> \in items_done

fwd_cell_of_chunk(w) == w[1]

\* bag * featureSize + featureDim
fwd_cell(w) == fwd_bag(w) * featureSize + fwd_featureDim(w)

fwd_positions_every_feature(w) ==
    fwd_begin(fwd_bag(w)) .. (fwd_end(fwd_bag(w)) - 1)

\* the positions whose offset2bag cell the iteration stores into
fwd_positions(w) ==
    IF fwd_featureDim(w) = 0
    THEN fwd_begin(fwd_bag(w)) .. (fwd_end(fwd_bag(w)) - 1)
    ELSE {}

\* one iteration of the chunk loop of one work item
FwdWorker(w) ==
    /\ pc = "fwd_items"
    /\ w \in fwd_workers \ items_done
    /\ fwd_ready(w)
    /\ output' = [output EXCEPT ![fwd_cell(w)] = fwd_output(fwd_bag(w), fwd_featureDim(w))]
    /\ max_indices' = IF fwd_stores_max_indices
                      THEN [max_indices EXCEPT ![fwd_cell(w)] =
                               fwd_result(fwd_bag(w), fwd_featureDim(w)).maxWord]
                      ELSE max_indices
    /\ bag_size' = IF mode = MODE_MEAN
                   THEN [bag_size EXCEPT ![fwd_bag(w)] = fwd_bag_size(fwd_bag(w))]
                   ELSE bag_size
    /\ offset2bag' = [emb \in DOMAIN offset2bag |->
                         IF emb \in fwd_positions(w) THEN fwd_bag(w) ELSE offset2bag[emb]]
    /\ writers' = [c \in DOMAIN writers |->
                      IF c = <<"output", fwd_cell(w)>>
                         \/ (c[1] = "offset2bag" /\ c[2] \in fwd_positions(w))
                      THEN writers[c] \cup {w}
                      ELSE writers[c]]
    /\ items_done' = items_done \cup {w}
    /\ submitted' = IF items_done = {}
                    THEN Append(submitted, "EmbeddingBag_updateOutputKernel")
                    ELSE submitted
    /\ pc' = IF items_done' = fwd_workers THEN "fwd_done" ELSE pc
    /\ UNCHANGED <<callVars, sortVars, segVars, partVars, accVars, mmVars, lgVars, ix, error>>

(***************************************************************************)
(* _embedding_bag_dense_backward_dpcpp, embedding_bag_backward_dpcpp_sum_avg*)
(***************************************************************************)
known_mode_any(m) == TRUE

\* the case labels of the switch on mode
known_mode(m) == m \in {MODE_SUM, MODE_MEAN, MODE_MAX}

\* the switch on mode: the default label and the internal asserts fail the
\* call; embedding_bag_backward_dpcpp_max allocates the zero gradient,
\* embedding_bag_backward_dpcpp_sum_avg returns early on an empty index
\* stream
DenseBackward ==
    /\ pc = "backward"
    /\ IF ~known_mode(mode)
       THEN /\ error' = "Unknown mode for embedding_bag_backward_dpcpp"
            /\ pc' = "failed"
            /\ UNCHANGED grad_weight
       ELSE IF mode # MODE_SUM /\ per_sample_weights.defined
       THEN /\ error' = "!per_sample_weights.defined() INTERNAL ASSERT FAILED"
            /\ pc' = "failed"
            /\ UNCHANGED grad_weight
       ELSE IF mode = MODE_MAX
       THEN /\ grad_weight' = [c \in Arr(NumWeights * Stride) |-> Zero]
            /\ pc' = "max"
            /\ UNCHANGED error
       ELSE IF numIndices = 0
       THEN /\ grad_weight' = [c \in Arr(NumWeights * Stride) |-> Zero]
            /\ pc' = "done"
            /\ UNCHANGED error
       ELSE /\ pc' = "sort"
            /\ UNCHANGED <<grad_weight, error>>
    /\ UNCHANGED <<callVars, fwdVars, sortVars, segVars, partVars,
                   grad_weight_per_segment, divisors, itemVars, mmVars, lgVars, ix, submitted>>

\* the two orders of equal keys a merge or a reversed pass leaves
StableOrder(keys, Before(_, _)) ==
    [i \in DOMAIN keys |->
        CHOOSE q \in DOMAIN keys :
            Cardinality({r \in DOMAIN keys :
                keys[r] < keys[q] \/ (keys[r] = keys[q] /\ Before(r, q))}) = i]
Earlier(r, q) == r < q
Later(r, q) == r > q

\* what std::sort may leave in orig_indices: every permutation that puts the
\* keys in non-decreasing order (the comparator looks at the key alone); of
\* a stream longer than MaxLen only two of them are explored
SortOutcomes(keys) ==
    IF Numel(keys) <= MaxLen
    THEN {p \in [DOMAIN keys -> DOMAIN keys] :
            /\ \A i, j \in DOMAIN keys : i # j => p[i] # p[j]
            /\ \A i, j \in DOMAIN keys : i < j => keys[p[i]] <= keys[p[j]]}
    ELSE {StableOrder(keys, Earlier), StableOrder(keys, Later)}

SortStage ==
    /\ pc = "sort"
    /\ \E p \in SortOutcomes(indices) :
          /\ orig_indices' = p
          /\ sorted_indices' = [i \in DOMAIN indices |-> indices[p[i]]]
    /\ pc' = "count"
    /\ UNCHANGED <<callVars, fwdVars, count, segVars, partVars, accVars, itemVars, mmVars, lgVars, ix, error>>
    /\ submitted' = Append(submitted, "sort")

Reverse(a) == [i \in DOMAIN a |-> a[Numel(a) - 1 - i]]
Plus(a, b) == a + b
Maximum(a, b) == IF a < b THEN b ELSE a

\* oneapi::dpl::inclusive_scan_by_segment with the default binary operation
inclusive_scan_by_segment_plus(keys, vals) ==
    LET f[i \in DOMAIN keys] ==
            IF i = 0 \/ keys[i] # keys[i - 1] THEN vals[i] ELSE Plus(f[i - 1], vals[i])
    IN  f

\* oneapi::dpl::inclusive_scan_by_segment with oneapi::dpl::maximum
inclusive_scan_by_segment_maximum(keys, vals) ==
    LET f[i \in DOMAIN keys] ==
            IF i = 0 \/ keys[i] # keys[i - 1] THEN vals[i] ELSE Maximum(f[i - 1], vals[i])
    IN  f

\* the running count of each position in its run of equal indices, before the
\* reverse maximum scan spreads the run's total over the run
frequency_count_running(sorted) ==
    inclusive_scan_by_segment_plus(sorted, [i \in DOMAIN sorted |-> 1])

\* count.fill_(1), the forward running count, the reverse running maximum
frequency_count(sorted) ==
    LET ones == [i \in DOMAIN sorted |-> 1]
        up == inclusive_scan_by_segment_plus(sorted, ones)
    IN  Reverse(inclusive_scan_by_segment_maximum(Reverse(sorted), Reverse(up)))

CountStage ==
    /\ pc = "count"
    /\ count' = IF scale_grad_by_freq THEN Defined(frequency_count(sorted_indices))
                ELSE Undefined
    /\ pc' = "segments"
    /\ UNCHANGED <<callVars, fwdVars, sorted_indices, orig_indices, segVars,
                   partVars, accVars, itemVars, mmVars, lgVars, ix, submitted, error>>

KernelNext ==
    \/ SegmentDiscovery
    \/ PartialsPerSegment
    \/ ExclusiveScan
    \/ PartialSegmentOffset
    \/ ComputeGradWeightBags
    \/ SumAndScatter

(***************************************************************************)
(* A call of embedding_bag_backward_dpcpp_kernel on a sorted stream        *)
(***************************************************************************)
\* gradient tables: one row per bag; distinct cells, or uniform rows
GradTables(nbags) ==
    { [c \in Arr(nbags * Stride) |-> FromInt(c + 1)],
      [c \in Arr(nbags * Stride) |-> FromInt(-2)] }

RECURSIVE RunSum(_, _)
RunSum(runs, r) == IF r < 0 THEN 0 ELSE runs[r] + RunSum(runs, r - 1)

\* the sorted stream with runs[r] occurrences of index r
SortedStream(runs) ==
    [i \in Arr(RunSum(runs, NumWeights - 1)) |->
        CHOOSE r \in Arr(NumWeights) : RunSum(runs, r - 1) <= i /\ i < RunSum(runs, r)]

NoForward ==
    /\ weight = <<>>
    /\ output = <<>>
    /\ max_indices = <<>>

NotStarted ==
    /\ segment_offsets = <<>>
    /\ num_of_segments = 0
    /\ partials_per_segment = <<>>
    /\ partials_per_segment_offset = <<>>
    /\ num_of_partial_segments = 0
    /\ partial_segment_offset = <<>>
    /\ grad_weight_per_segment = <<>>
    /\ grad_weight = <<>>
    /\ divisors = {}
    /\ items_done = {}
    /\ writers = <<>>

LogicalIdle ==
    /\ lg_op = "none"
    /\ lg_input = <<>>
    /\ lg_pending = {}
    /\ lg_acc = <<>>
    /\ lg_alive = {}
    /\ lg_result = <<>>

NothingSubmitted ==
    /\ submitted = <<>>
    /\ error = "none"

\* no work item of the index model
IndexIdle == ix = <<>>

MinMaxIdle ==
    /\ mm_input = <<>>
    /\ mm_pending = {}
    /\ mm_acc = <<>>
    /\ mm_alive = {}

\* the stream was sorted from its reverse; two bags split it in the middle
KernelCall(maxrun) ==
    /\ \E runs \in [Arr(NumWeights) -> 0 .. maxrun] :
          /\ RunSum(runs, NumWeights - 1) >= 1
          /\ sorted_indices = SortedStream(runs)
    /\ orig_indices = [i \in Arr(numel) |-> numel - 1 - i]
    /\ indices = [p \in Arr(numel) |-> sorted_indices[numel - 1 - p]]
    /\ offsets = [b \in Arr(2) |-> IF b = 0 THEN 0 ELSE numel \div 2]
    /\ offset2bag = [p \in Arr(numel) |-> IF p < numel \div 2 THEN 0 ELSE 1]
    /\ bag_size = [b \in Arr(2) |-> IF b = 0 THEN numel \div 2 ELSE numel - numel \div 2]
    /\ count = Undefined
    /\ per_sample_weights = Undefined
    /\ scale_grad_by_freq = FALSE
    /\ mode = MODE_SUM
    /\ grad \in GradTables(2)
    /\ padding_idx \in {-1} \cup Arr(NumWeights)
    /\ NoForward
    /\ NotStarted
    /\ args = ValidArgs
    /\ MinMaxIdle
    /\ LogicalIdle
    /\ NothingSubmitted
    /\ IndexIdle
    /\ pc = "segments"

KernelInit == KernelCall(MaxRun)

SpecKernel == KernelInit /\ [][KernelNext]_vars

(***************************************************************************)
(* The same call with the work items of sum_and_scatter interleaved        *)
(***************************************************************************)
ScatterInit == KernelCall(MaxScatterRun)

ScatterNext ==
    \/ SegmentDiscovery
    \/ PartialsPerSegment
    \/ ExclusiveScan
    \/ PartialSegmentOffset
    \/ ComputeGradWeightBags
    \/ \E gid \in scatter_items : ScatterWorkItem(gid)

SpecScatter == ScatterInit /\ [][ScatterNext]_vars

(***************************************************************************)
(* A call of embedding_bag_backward_dpcpp_max, its workers interleaved     *)
(***************************************************************************)
\* the argmax row of a bag: the empty-bag sentinel, the last index in every
\* feature, or an index that changes with the feature
MaxIndexRows ==
    { [f \in Arr(Stride) |-> -1],
      [f \in Arr(Stride) |-> NumWeights - 1],
      [f \in Arr(Stride) |-> f % NumWeights] }

MaxScatterInit ==
    /\ \E nb \in 1 .. MaxBags + 1 :
          /\ grad = [c \in Arr(nb * Stride) |-> FromInt(c + 1)]
          /\ \E rows \in [Arr(nb) -> MaxIndexRows] :
                \* the bag beyond MaxBags is an empty one
                /\ nb > MaxBags => rows[nb - 1] = [f \in Arr(Stride) |-> -1]
                /\ max_indices = [c \in Arr(nb * Stride) |-> rows[c \div Stride][c % Stride]]
    /\ mode = MODE_MAX
    /\ weight = <<>>
    /\ indices = <<>>
    /\ offsets = <<>>
    /\ per_sample_weights = Undefined
    /\ scale_grad_by_freq = FALSE
    /\ padding_idx = SumAvgPaddingIdx
    /\ output = <<>>
    /\ offset2bag = <<>>
    /\ bag_size = <<>>
    /\ sorted_indices = <<>>
    /\ orig_indices = <<>>
    /\ count = Undefined
    /\ segment_offsets = <<>>
    /\ num_of_segments = 0
    /\ partials_per_segment = <<>>
    /\ partials_per_segment_offset = <<>>
    /\ num_of_partial_segments = 0
    /\ partial_segment_offset = <<>>
    /\ grad_weight_per_segment = <<>>
    /\ grad_weight = [c \in Arr(NumWeights * Stride) |-> Zero]
    /\ divisors = {}
    /\ items_done = {}
    /\ writers = <<>>
    /\ args = ValidArgs
    /\ MinMaxIdle
    /\ LogicalIdle
    /\ NothingSubmitted
    /\ IndexIdle
    /\ pc = "maxscatter"

MaxScatterNext == \E w \in max_workers : MaxWorker(w)

SpecMaxScatter == MaxScatterInit /\ [][MaxScatterNext]_vars

(***************************************************************************)
(* A forward call in SUM or MEAN mode followed by its dense backward call  *)
(***************************************************************************)
Streams(maxlen) == UNION {[Arr(n) -> Arr(NumWeights)] : n \in 0 .. maxlen}

\* offsets of nb bags over n lookups: from 0, non-decreasing; the bags of a
\* stream longer than MaxLen are cut at its start, middle or end
OffsetCuts(n) == IF n <= MaxLen THEN 0 .. n ELSE {0, n \div 2, n}

OffsetTables(n, nb) ==
    {o \in [Arr(nb) -> OffsetCuts(n)] :
        /\ o[0] = 0
        /\ \A b \in Arr(nb - 1) : o[b] <= o[b + 1]}

\* per-sample weights: different at every position, or 1/2 everywhere
PswTables(n) ==
    { [p \in Arr(n) |-> FromInt(p + 2)], [p \in Arr(n) |-> <<1, 2>>] }

WeightTable == [c \in Arr(NumWeights * Stride) |-> FromInt(c + 1)]

\* weight tables of a MAX call: all cells different, growing or falling
\* with the row, or all cells equal
WeightTables ==
    { WeightTable,
      [c \in Arr(NumWeights * Stride) |-> FromInt(-c)],
      [c \in Arr(NumWeights * Stride) |-> One] }

\* streams with a run longer than one partial segment: index 0 everywhere
\* but at some of three spots
LongLen == NROWS_PER_THREAD + MaxLen
LongStreams ==
    {[p \in Arr(LongLen) |-> IF p \in S THEN 1 ELSE 0] :
        S \in SUBSET {0, NROWS_PER_THREAD \div 2, LongLen - 1}}

\* mode values that are none of the three modes
UnknownModes == {-1, MODE_MAX + 1}

Init ==
    /\ indices \in Streams(MaxLen) \cup LongStreams
    /\ \E nb \in 1 .. MaxBags :
          /\ offsets \in OffsetTables(Numel(indices), nb)
          /\ grad = [c \in Arr(nb * Stride) |-> FromInt(c + 1)]
    /\ mode \in {MODE_SUM, MODE_MEAN, MODE_MAX} \cup UnknownModes
    /\ IF mode = MODE_MAX
       THEN /\ per_sample_weights = Undefined
            /\ scale_grad_by_freq = FALSE
            /\ weight \in WeightTables
       ELSE IF mode \in UnknownModes
       THEN /\ per_sample_weights = Undefined
            /\ scale_grad_by_freq = FALSE
            /\ weight = WeightTable
       ELSE /\ \/ per_sample_weights = Undefined
               \/ /\ mode = MODE_SUM
                  /\ \E t \in PswTables(Numel(indices)) :
                        per_sample_weights = Defined(t)
            /\ scale_grad_by_freq \in BOOLEAN
            /\ weight = WeightTable
    /\ padding_idx = SumAvgPaddingIdx
    /\ output = <<>>
    /\ max_indices = <<>>
    /\ offset2bag = <<>>
    /\ bag_size = <<>>
    /\ sorted_indices = <<>>
    /\ orig_indices = <<>>
    /\ count = Undefined
    /\ NotStarted
    /\ args = ValidArgs
    /\ MinMaxIdle
    /\ LogicalIdle
    /\ NothingSubmitted
    /\ IndexIdle
    /\ pc = "forward"

Next ==
    \/ Forward
    \/ DenseBackward
    \/ SortStage
    \/ CountStage
    \/ KernelNext
    \/ MaxBackward

Spec == Init /\ [][Next]_vars

(***************************************************************************)
(* _embedding_bag_dpcpp, the iterations of its kernel interleaved          *)
(***************************************************************************)
\* the buffers _embedding_bag_dpcpp allocates with at::empty
ForwardInit ==
    /\ \E n \in 0 .. MaxLen :
          /\ indices = [p \in Arr(n) |-> p % NumWeights]
          /\ \/ per_sample_weights = Undefined
             \/ /\ mode = MODE_SUM
                /\ per_sample_weights = Defined([p \in Arr(n) |-> FromInt(p + 2)])
    /\ \E nb \in 1 .. MaxBags : \E o \in OffsetTables(Numel(indices), nb) :
          \* the tables of up to MaxBags bags, and those of MaxBags bags
          \* followed by one more, empty, bag
          \/ offsets = o
          \/ /\ nb = MaxBags
             /\ offsets = [b \in Arr(nb + 1) |-> IF b < nb THEN o[b] ELSE Numel(indices)]
    /\ grad = [c \in Arr(numBags * Stride) |-> FromInt(c + 1)]
    /\ mode \in {MODE_SUM, MODE_MEAN, MODE_MAX}
    /\ scale_grad_by_freq = FALSE
    /\ weight = WeightTable
    /\ padding_idx = SumAvgPaddingIdx
    /\ output = [c \in Arr(numBags * featureSize) |-> UninitVal]
    /\ max_indices = [c \in Arr(numBags * featureSize) |-> UninitInt]
    /\ offset2bag = [p \in Arr(numIndices) |-> UninitInt]
    /\ bag_size = [b \in Arr(numBags) |-> UninitInt]
    /\ sorted_indices = <<>>
    /\ orig_indices = <<>>
    /\ count = Undefined
    /\ segment_offsets = <<>>
    /\ num_of_segments = 0
    /\ partials_per_segment = <<>>
    /\ partials_per_segment_offset = <<>>
    /\ num_of_partial_segments = 0
    /\ partial_segment_offset = <<>>
    /\ grad_weight_per_segment = <<>>
    /\ grad_weight = <<>>
    /\ divisors = {}
    /\ items_done = {}
    /\ writers = [c \in ({"output"} \X Arr(numBags * featureSize))
                        \cup ({"offset2bag"} \X Arr(numIndices)) |-> {}]
    /\ args = ValidArgs
    /\ MinMaxIdle
    /\ LogicalIdle
    /\ NothingSubmitted
    /\ IndexIdle
    /\ pc = "fwd_items"

ForwardNext == \E w \in fwd_workers : FwdWorker(w)

SpecForward == ForwardInit /\ [][ForwardNext]_vars

(***************************************************************************)
(* MinMaxOps and _min_max_values_kernel_dpcpp_impl (ReduceOpAminmax.cpp)   *)
(***************************************************************************)
\* std::numeric_limits<scalar_t>::max(); lowest() is its negation
FMax == 1
PosInf == FMax + 1
NegInf == -FMax - 1
NaN == FMax + 2
Floats == (NegInf .. PosInf) \cup {NaN}

isnan(x) == x = NaN
\* every comparison with a NaN is false
FLess(a, b) == ~isnan(a) /\ ~isnan(b) /\ a < b

combine_min_plain(a, b) == IF FLess(a, b) THEN a ELSE b

combine_min(a, b) == IF isnan(a) \/ FLess(a, b) THEN a ELSE b
combine_max(a, b) == IF isnan(a) \/ FLess(b, a) THEN a ELSE b
combine(a, b) == <<combine_min(a[1], b[1]), combine_max(a[2], b[2])>>
reduce(acc, data) == combine(acc, <<data, data>>)
project(acc) == acc
\* the identity handed to dpcpp_reduce_kernel
ident == <<FMax, -FMax>>

EmbeddingUnused ==
    /\ NoForward
    /\ NotStarted
    /\ indices = <<>>
    /\ offsets = <<>>
    /\ per_sample_weights = Undefined
    /\ mode = MODE_SUM
    /\ scale_grad_by_freq = FALSE
    /\ grad = <<>>
    /\ padding_idx = SumAvgPaddingIdx
    /\ offset2bag = <<>>
    /\ bag_size = <<>>
    /\ sorted_indices = <<>>
    /\ orig_indices = <<>>
    /\ count = Undefined

EmbeddingIdle ==
    /\ args = ValidArgs
    /\ EmbeddingUnused

MinMaxInit ==
    /\ \E n \in 1 .. MaxElems : mm_input \in [Arr(n) -> Floats]
    /\ mm_pending = DOMAIN mm_input
    /\ mm_acc = [t \in Arr(NumThreads) |-> ident]
    /\ mm_alive = Arr(NumThreads)
    /\ EmbeddingIdle
    /\ LogicalIdle
    /\ NothingSubmitted
    /\ IndexIdle
    /\ pc = "minmax"

embVars == <<callVars, fwdVars, sortVars, segVars, partVars, accVars, itemVars>>
hostVars == <<submitted, error>>

\* a thread folds one more element into its accumulator
MinMaxReduce(t, i) ==
    /\ pc = "minmax"
    /\ t \in mm_alive
    /\ i \in mm_pending
    /\ mm_acc' = [mm_acc EXCEPT ![t] = reduce(@, mm_input[i])]
    /\ mm_pending' = mm_pending \ {i}
    /\ UNCHANGED <<embVars, lgVars, ix, hostVars, mm_input, mm_alive, pc>>

\* a thread takes over the partial result of another
MinMaxCombine(t, u) ==
    /\ pc = "minmax"
    /\ t \in mm_alive
    /\ u \in mm_alive \ {t}
    /\ mm_acc' = [mm_acc EXCEPT ![t] = combine(@, mm_acc[u]), ![u] = ident]
    /\ mm_alive' = mm_alive \ {u}
    /\ UNCHANGED <<embVars, lgVars, ix, hostVars, mm_input, mm_pending, pc>>

\* the last accumulator is projected to the two outputs
MinMaxFinish ==
    /\ pc = "minmax"
    /\ mm_pending = {}
    /\ Cardinality(mm_alive) = 1
    /\ mm_acc' = [t \in DOMAIN mm_acc |-> project(mm_acc[t])]
    /\ pc' = "done"
    /\ UNCHANGED <<embVars, lgVars, ix, hostVars, mm_input, mm_pending, mm_alive>>

MinMaxNext ==
    \/ \E t \in Arr(NumThreads), i \in Arr(MaxElems) : MinMaxReduce(t, i)
    \/ \E t, u \in Arr(NumThreads) : MinMaxCombine(t, u)
    \/ MinMaxFinish

SpecMinMax == MinMaxInit /\ [][MinMaxNext]_vars

(***************************************************************************)
(* all and any (ReduceOpLogical.cpp)                                       *)
(***************************************************************************)
\* the scalar values of an input element
LgScalars == 0 .. 2

\* static_cast<acc_t>(a) with acc_t = bool
ToBool(x) == x # 0
\* a bool handed on as a scalar
FromBool(b) == IF b THEN 1 ELSE 0

ReduceAndOps(a, b) == ToBool(a) /\ ToBool(b)
ReduceOrOps(a, b) == ToBool(a) \/ ToBool(b)

lg_func(a, b) == IF lg_op = "all" THEN ReduceAndOps(a, b) ELSE ReduceOrOps(a, b)

\* the identity and_kernel and or_kernel hand to dpcpp_reduce_kernel
lg_ident == lg_op = "all"

lg_kernel == IF lg_op = "all" THEN "and_kernel" ELSE "or_kernel"

lg_fill_swapped == IF lg_op = "all" THEN 0 ELSE 1

\* result.fill_(1) of _all, result.fill_(0) of _any
lg_fill == IF lg_op = "all" THEN 1 ELSE 0

LogicalInit ==
    /\ lg_op \in {"all", "any"}
    /\ \E n \in 0 .. MaxElems : lg_input \in [Arr(n) -> LgScalars]
    /\ lg_pending = {}
    /\ lg_acc = <<>>
    /\ lg_alive = {}
    \* at::empty, resized by make_reduction to the one cell of a full reduction
    /\ lg_result = [c \in Arr(1) |-> UninitInt]
    /\ EmbeddingIdle
    /\ MinMaxIdle
    /\ NothingSubmitted
    /\ IndexIdle
    /\ pc = "logical"

\* _all and _any
LogicalCall ==
    /\ pc = "logical"
    /\ IF Numel(lg_input) = 0
       THEN /\ lg_result' = [c \in DOMAIN lg_result |-> lg_fill]
            /\ pc' = "done"
            /\ UNCHANGED <<lg_pending, lg_acc, lg_alive, submitted>>
       ELSE /\ submitted' = Append(submitted, lg_kernel)
            /\ lg_pending' = DOMAIN lg_input
            /\ lg_acc' = [t \in Arr(NumThreads) |-> lg_ident]
            /\ lg_alive' = Arr(NumThreads)
            /\ pc' = "lreduce"
            /\ UNCHANGED lg_result
    /\ UNCHANGED <<embVars, mmVars, ix, lg_op, lg_input, error>>

\* a thread folds one more element into its accumulator
LogicalReduce(t, i) ==
    /\ pc = "lreduce"
    /\ t \in lg_alive
    /\ i \in lg_pending
    /\ lg_acc' = [lg_acc EXCEPT ![t] = lg_func(FromBool(@), lg_input[i])]
    /\ lg_pending' = lg_pending \ {i}
    /\ UNCHANGED <<embVars, mmVars, ix, hostVars, lg_op, lg_input, lg_alive, lg_result, pc>>

\* a thread takes over the partial result of another
LogicalCombine(t, u) ==
    /\ pc = "lreduce"
    /\ t \in lg_alive
    /\ u \in lg_alive \ {t}
    /\ lg_acc' = [lg_acc EXCEPT ![t] = lg_func(FromBool(@), FromBool(lg_acc[u])),
                                ![u] = lg_ident]
    /\ lg_alive' = lg_alive \ {u}
    /\ UNCHANGED <<embVars, mmVars, ix, hostVars, lg_op, lg_input, lg_pending, lg_result, pc>>

\* the last accumulator is stored into the result
LogicalFinish ==
    /\ pc = "lreduce"
    /\ lg_pending = {}
    /\ \E t \in lg_alive :
          /\ lg_alive = {t}
          /\ lg_result' = [c \in DOMAIN lg_result |-> FromBool(lg_acc[t])]
    /\ pc' = "done"
    /\ UNCHANGED <<embVars, mmVars, ix, hostVars, lg_op, lg_input, lg_pending, lg_acc, lg_alive>>

LogicalNext ==
    \/ LogicalCall
    \/ \E t \in Arr(NumThreads), i \in Arr(MaxElems) : LogicalReduce(t, i)
    \/ \E t, u \in Arr(NumThreads) : LogicalCombine(t, u)
    \/ LogicalFinish

SpecLogical == LogicalInit /\ [][LogicalNext]_vars

(***************************************************************************)
(* The checks at the entry of _embedding_bag_dpcpp, argmax_out, argmin_out *)
(* and _aminmax                                                            *)
(***************************************************************************)
\* the arguments of an embedding_bag call with at most one check broken
ForwardArgs ==
    { ValidArgs,
      [ValidArgs EXCEPT !.indices_dtype = "Int"],
      [ValidArgs EXCEPT !.offsets_dtype = "Int"],
      [ValidArgs EXCEPT !.indices_device = "cpu"],
      [ValidArgs EXCEPT !.offsets_device = "cpu"] }

ChecksInit ==
    /\ \/ /\ args \in ForwardArgs
          /\ indices = [p \in Arr(MaxLen) |-> p % NumWeights]
          /\ offsets = [b \in Arr(1) |-> 0]
          /\ grad = [c \in Arr(Stride) |-> FromInt(c + 1)]
          /\ weight = WeightTable
          /\ mm_input = <<>>
          /\ pc = "forward"
       \/ /\ \E o \in {"argmax", "argmin", "aminmax"}, cplx \in BOOLEAN :
                args = [ValidArgs EXCEPT !.op = o, !.is_complex = cplx]
          /\ \E n \in 0 .. MaxElems : mm_input \in [Arr(n) -> {0, FMax}]
          /\ indices = <<>>
          /\ offsets = <<>>
          /\ grad = <<>>
          /\ weight = <<>>
          /\ pc = args.op
    /\ per_sample_weights = Undefined
    /\ mode = MODE_SUM
    /\ scale_grad_by_freq = FALSE
    /\ padding_idx = SumAvgPaddingIdx
    /\ output = <<>>
    /\ max_indices = <<>>
    /\ offset2bag = <<>>
    /\ bag_size = <<>>
    /\ sorted_indices = <<>>
    /\ orig_indices = <<>>
    /\ count = Undefined
    /\ NotStarted
    /\ mm_pending = {}
    /\ mm_acc = <<>>
    /\ mm_alive = {}
    /\ LogicalIdle
    /\ NothingSubmitted
    /\ IndexIdle

\* argmax_out; the result is written by at::max_out, which may store any
\* position of the input
ArgmaxOut ==
    /\ pc = "argmax"
    /\ IF ~(Numel(mm_input) > 0)
       THEN /\ error' = "cannot perform reduction function argmax on a tensor with no elements"
            /\ pc' = "failed"
            /\ UNCHANGED <<lg_result, submitted>>
       ELSE /\ \E i \in DOMAIN mm_input : lg_result' = [c \in Arr(1) |-> i]
            /\ submitted' = Append(submitted, "max_out")
            /\ pc' = "done"
            /\ UNCHANGED error
    /\ UNCHANGED <<embVars, mmVars, ix, lg_op, lg_input, lg_pending, lg_acc, lg_alive>>

\* argmin_out, with at::min_out
ArgminOut ==
    /\ pc = "argmin"
    /\ IF ~(Numel(mm_input) > 0)
       THEN /\ error' = "cannot perform reduction function argmin on a tensor with no elements"
            /\ pc' = "failed"
            /\ UNCHANGED <<lg_result, submitted>>
       ELSE /\ \E i \in DOMAIN mm_input : lg_result' = [c \in Arr(1) |-> i]
            /\ submitted' = Append(submitted, "min_out")
            /\ pc' = "done"
            /\ UNCHANGED error
    /\ UNCHANGED <<embVars, mmVars, ix, lg_op, lg_input, lg_pending, lg_acc, lg_alive>>

\* the two TORCH_CHECKs of _aminmax
aminmax_check(a, self) ==
    IF a.is_complex THEN "max is not yet implemented for complex tensors."
    ELSE IF ~(Numel(self) > 0) THEN "operation does not have an identity."
    ELSE "none"

\* _aminmax up to the submission of aminmax_kernel
Aminmax ==
    /\ pc = "aminmax"
    /\ IF aminmax_check(args, mm_input) # "none"
       THEN /\ error' = aminmax_check(args, mm_input)
            /\ pc' = "failed"
            /\ UNCHANGED <<mm_pending, mm_acc, mm_alive, submitted>>
       ELSE /\ submitted' = Append(submitted, "aminmax_kernel")
            /\ mm_pending' = DOMAIN mm_input
            /\ mm_acc' = [t \in Arr(NumThreads) |-> ident]
            /\ mm_alive' = Arr(NumThreads)
            /\ pc' = "minmax"
            /\ UNCHANGED error
    /\ UNCHANGED <<embVars, lgVars, ix, mm_input>>

ChecksNext ==
    \/ Forward
    \/ ArgmaxOut
    \/ ArgminOut
    \/ Aminmax
    \/ \E t \in Arr(NumThreads), i \in Arr(MaxElems) : MinMaxReduce(t, i)
    \/ \E t, u \in Arr(NumThreads) : MinMaxCombine(t, u)
    \/ MinMaxFinish

SpecChecks == ChecksInit /\ [][ChecksNext]_vars

(***************************************************************************)
(* The index variables of a work item of compute_grad_weight_bags, and     *)
(* num_of_partial_segments of the host, with the width of int scaled down: *)
(* each variable is kept as the int the code declares (field int) and as   *)
(* the value of exact integer arithmetic (field exact).                    *)
(***************************************************************************)
\* the largest int (2^31 - 1 in the source)
IndexIntMax == 7

\* the conversion of an int64 value to int keeps the value modulo the number
\* of int values
Narrow(x) == ((x + IndexIntMax + 1) % (2 * IndexIntMax + 2)) - IndexIntMax - 1

\* integer division and remainder of C++ truncate toward zero
CDiv(a, b) == IF a >= 0 THEN a \div b ELSE -((-a) \div b)
CMod(a, b) == a - CDiv(a, b) * b

Both(n, e) == [int |-> n, exact |-> e]
Unset == Both(0, 0)

\* sizes of a call: below, at and above the largest int
IndexSizes == {1, 2, IndexIntMax, IndexIntMax + 2}

ix_work_group_size == 2
ix_stride_warped(stride) == CeilDiv(stride, ix_work_group_size) * ix_work_group_size
ix_group_size(stride) == Min(ix_stride_warped(stride), ix_work_group_size)
ix_total_items(nseg, stride) ==
    CeilDiv(nseg * ix_stride_warped(stride), ix_group_size(stride)) * ix_group_size(stride)

IndexInit ==
    /\ \E total \in IndexSizes, stride \in {1, 2}, n \in {2, IndexIntMax + 3},
          nb \in {1, IndexIntMax, IndexIntMax + 2} :
          ix = [\* the sum partials_per_segment[last] + partials_per_segment_offset[last]
                total |-> total,
                stride |-> stride, numel |-> n, numBags |-> nb,
                num_of_partial_segments |-> Unset,
                gid |-> Unset, id |-> Unset, startFeature |-> Unset,
                idx_begin |-> Unset, idx_end |-> Unset,
                orig_row |-> Unset, seq_number |-> Unset,
                grad_output_row |-> Unset]
    /\ EmbeddingIdle
    /\ MinMaxIdle
    /\ LogicalIdle
    /\ NothingSubmitted
    /\ pc = "ix_total"

ixOthers == <<embVars, mmVars, lgVars, submitted, error>>

\* const int num_of_partial_segments = partials_per_segment[last] +
\* partials_per_segment_offset[last]; a count that does not fit allocates
\* buffers of another size and the call is not followed further
IndexTotal ==
    /\ pc = "ix_total"
    /\ ix' = [ix EXCEPT !.num_of_partial_segments = Both(Narrow(ix.total), ix.total)]
    /\ pc' = IF Narrow(ix.total) = ix.total THEN "ix_item" ELSE "ix_done"
    /\ UNCHANGED ixOthers

\* const int gid = item.get_global_linear_id(), id = gid / stride_warped,
\* startFeature = gid % stride_warped, and the two early returns
IndexItem ==
    /\ pc = "ix_item"
    /\ \E lid \in {0, 1, ix_total_items(ix.total, ix.stride) - 1} :
          LET sw == ix_stride_warped(ix.stride)
              gid == Narrow(lid)
              id == Narrow(CDiv(gid, sw))
              startFeature == Narrow(CMod(gid, sw))
          IN  /\ ix' = [ix EXCEPT !.gid = Both(gid, lid),
                                  !.id = Both(id, lid \div sw),
                                  !.startFeature = Both(startFeature, lid % sw)]
              /\ pc' = IF startFeature >= ix.stride \/ id >= ix.total
                       THEN "ix_done" ELSE "ix_range"
    /\ UNCHANGED ixOthers

\* const int idx_begin = segment_offsets_ptr[id], idx_end = numel or
\* segment_offsets_ptr[id + 1]; the cells hold positions of the stream (a
\* read with an id outside the buffer returns any of them)
IndexRange ==
    /\ pc = "ix_range"
    /\ \E b \in {0, ix.numel - 2} : \E e \in {b + 1, ix.numel} :
          ix' = [ix EXCEPT !.idx_begin = Both(Narrow(b), b),
                           !.idx_end = Both(Narrow(e), e)]
    /\ pc' = IF ix'.idx_begin.int < ix'.idx_end.int THEN "ix_row" ELSE "ix_done"
    /\ UNCHANGED ixOthers

\* one iteration of the loop: const int orig_row = indices_ptr[idx],
\* seq_number = offset2bag_ptr[orig_row], grad_output_row = seq_number * stride
IndexRow ==
    /\ pc = "ix_row"
    /\ \E row \in {0, ix.numel - 1}, bag \in {0, ix.numBags - 1} :
          LET orig_row == Narrow(row)
              seq == Narrow(bag)
          IN  ix' = [ix EXCEPT !.orig_row = Both(orig_row, row),
                               !.seq_number = Both(seq, bag),
                               !.grad_output_row =
                                   Both(Narrow(seq * ix.stride), bag * ix.stride)]
    /\ pc' = "ix_done"
    /\ UNCHANGED ixOthers

IndexNext ==
    \/ IndexTotal
    \/ IndexItem
    \/ IndexRange
    \/ IndexRow

SpecIndex == IndexInit /\ [][IndexNext]_vars

(***************************************************************************)
(* Reference values, computed from the arguments in the original order     *)
(***************************************************************************)
LookupsOfBag(b) == Cardinality({q \in Arr(numIndices) : offset2bag[q] = b})
Occurrences(r) == Cardinality({q \in Arr(numIndices) : indices[q] = r})
Occurring == {indices[q] : q \in Arr(numIndices)}

\* the contribution of lookup p to feature f of the row of its index
RefContribution(p, f) ==
    LET g == grad[offset2bag[p] * Stride + f]
        m == IF mode = MODE_MEAN
             THEN RatDiv(g, FromInt(LookupsOfBag(offset2bag[p]))) ELSE g
        w == IF per_sample_weights.defined
             THEN RatMul(m, per_sample_weights.data[p]) ELSE m
    IN  IF scale_grad_by_freq
        THEN RatDiv(w, FromInt(Occurrences(indices[p]))) ELSE w

RECURSIVE RefSum(_, _, _)
RefSum(p, r, f) ==
    IF p = 0 THEN Zero
    ELSE RatAdd(RefSum(p - 1, r, f),
                IF indices[p - 1] = r THEN RefContribution(p - 1, f) ELSE Zero)

ExpectedGrad(r, f) == RefSum(numIndices, r, f)

GradMatchesReference ==
    \A r \in Arr(NumWeights), f \in Arr(Stride) :
        grad_weight[r * Stride + f] = ExpectedGrad(r, f)

Unsorted == \E p, q \in Arr(numIndices) : p < q /\ indices[p] > indices[q]
HasDuplicates == \E p, q \in Arr(numIndices) : p < q /\ indices[p] = indices[q]

(***************************************************************************)
(* C1  Gradient conservation: in SUM or MEAN mode without frequency        *)
(* scaling and without per-sample weights, the returned gradient row i is  *)
(* the sum over the lookups p with indices[p] = i of the gradient row of   *)
(* bag offset2bag[p] (divided by the size of that bag in MEAN mode); rows  *)
(* of indices that do not occur are zero.                                  *)
(***************************************************************************)
C1_GradientConservation ==
    (pc = "done" /\ mode \in {MODE_SUM, MODE_MEAN}
        /\ ~scale_grad_by_freq /\ ~per_sample_weights.defined)
        => /\ GradMatchesReference
           /\ \A r \in Arr(NumWeights) \ Occurring, f \in Arr(Stride) :
                  grad_weight[r * Stride + f] = Zero

C1_Witness ==
    /\ pc = "done" /\ ~scale_grad_by_freq /\ ~per_sample_weights.defined
    /\ Unsorted /\ HasDuplicates
    /\ num_of_partial_segments > num_of_segments
    /\ mode = MODE_MEAN
    /\ \E r \in Arr(NumWeights) : grad_weight[r * Stride] # Zero

(***************************************************************************)
(* C2  With per-sample weights (SUM mode) every lookup contributes the     *)
(* gradient row of its bag times the per-sample weight stored at its own   *)
(* original position, also for streams that are not sorted.                *)
(***************************************************************************)
C2_PerSampleWeightOfOwnLookup ==
    (pc = "done" /\ per_sample_weights.defined) => GradMatchesReference

(***************************************************************************)
(* C3  Segment partition: the segment offsets start at 0 and increase      *)
(* strictly, their ranges cover [0, N) exactly once, each range holds one  *)
(* index value, neighbouring ranges hold different values, and there are   *)
(* as many segments as distinct values.                                    *)
(***************************************************************************)
SegmentsKnown == pc \in {"partials", "scan", "psoffset", "grad", "scatter", "done"}
                 /\ numel > 0
SegEnd(s) == IF s = num_of_segments - 1 THEN numel ELSE segment_offsets[s + 1]
SegRange(s) == segment_offsets[s] .. (SegEnd(s) - 1)

C3_SegmentPartition ==
    SegmentsKnown =>
        /\ num_of_segments \in 1 .. numel
        /\ segment_offsets[0] = 0
        /\ \A s \in Arr(num_of_segments - 1) :
              /\ segment_offsets[s] < segment_offsets[s + 1]
              /\ sorted_indices[segment_offsets[s]] #
                     sorted_indices[segment_offsets[s + 1]]
        /\ \A i \in Arr(numel) :
              Cardinality({s \in Arr(num_of_segments) : i \in SegRange(s)}) = 1
        /\ \A s \in Arr(num_of_segments) : \A i \in SegRange(s) :
              sorted_indices[i] = sorted_indices[segment_offsets[s]]
        /\ num_of_segments = Cardinality({sorted_indices[i] : i \in Arr(numel)})

C3_Witness ==
    /\ pc = "partials"
    /\ num_of_segments >= 2
    /\ \E s \in Arr(num_of_segments) : Cardinality(SegRange(s)) >= 2
    /\ sorted_indices[0] = 0

(***************************************************************************)
(* C4  Partial-segment coverage: a segment of length L has ceil(L / 10)    *)
(* partial segments; their ranges cover the segment exactly once; each has *)
(* length 1..10 and only the last of a segment may be shorter than 10.     *)
(***************************************************************************)
PartialsKnown == pc \in {"grad", "scatter", "done"} /\ numel > 0
PartEnd(j) ==
    IF j = num_of_partial_segments - 1 THEN numel ELSE partial_segment_offset[j + 1]
PartRange(j) == partial_segment_offset[j] .. (PartEnd(j) - 1)
\* the partial segments that start inside segment s
PartialsOf(s) ==
    {j \in Arr(num_of_partial_segments) : partial_segment_offset[j] \in SegRange(s)}
IsCeilOfTenth(k, L) == k * 10 >= L /\ (k - 1) * 10 < L

C4_PartialCoverage ==
    PartialsKnown =>
        \A s \in Arr(num_of_segments) :
            /\ IsCeilOfTenth(partials_per_segment[s], Cardinality(SegRange(s)))
            /\ Cardinality(PartialsOf(s)) = partials_per_segment[s]
            /\ \A i \in SegRange(s) :
                  Cardinality({j \in PartialsOf(s) : i \in PartRange(j)}) = 1
            /\ \A j \in PartialsOf(s) :
                  /\ PartRange(j) \subseteq SegRange(s)
                  /\ Cardinality(PartRange(j)) \in 1 .. 10
                  /\ Cardinality(PartRange(j)) < 10 => PartEnd(j) = SegEnd(s)

C4_Witness ==
    /\ pc = "grad"
    /\ \E s, t \in Arr(num_of_segments) :
          /\ Cardinality(SegRange(s)) = 11
          /\ Cardinality(SegRange(t)) = 10
          /\ s < t

(***************************************************************************)
(* C5  Padding exclusion: when padding_idx is an index of the stream, its  *)
(* gradient row is zero in every column whatever the gradients are, and    *)
(* the rows of the other occurring indices are written.                    *)
(***************************************************************************)
C5_PaddingExclusion ==
    (pc = "done" /\ padding_idx \in Occurring) =>
        \A f \in Arr(Stride) :
            /\ grad_weight[padding_idx * Stride + f] = Zero
            /\ \A r \in Occurring \ {padding_idx} :
                  grad_weight[r * Stride + f] = ExpectedGrad(r, f)

C5_Witness ==
    /\ pc = "done"
    /\ padding_idx \in Occurring
    /\ Occurring \ {padding_idx} # {}
    /\ \A f \in Arr(Stride) : ExpectedGrad(padding_idx, f) # Zero
    /\ \E r \in Occurring : grad_weight[r * Stride] # Zero

(***************************************************************************)
(* C6  Mean-mode empty bag: the forward pass gives an empty bag a zero     *)
(* output row and bag_size 0; in the backward pass on the tables of that   *)
(* forward pass every bag whose bag_size is a divisor has a lookup and a   *)
(* recorded size of at least 1, and no partial sum is the result of a      *)
(* division by zero.                                                       *)
(***************************************************************************)
EmptyBags == {b \in Arr(numBags) : fwd_end(b) = fwd_begin(b)}

C6_MeanEmptyBag ==
    (mode = MODE_MEAN /\ pc # "forward") =>
        /\ \A b \in EmptyBags :
              /\ bag_size[b] = 0
              /\ \A f \in Arr(Stride) : output[b * Stride + f] = Zero
        /\ \A b \in divisors :
              /\ b \notin EmptyBags
              /\ bag_size[b] >= 1
              /\ bag_size[b] = LookupsOfBag(b)
        /\ \A c \in DOMAIN grad_weight_per_segment : IsNum(grad_weight_per_segment[c])
        /\ \A c \in DOMAIN grad_weight : IsNum(grad_weight[c])

C6_Witness ==
    /\ mode = MODE_MEAN
    /\ pc = "done"
    /\ EmptyBags # {}
    /\ divisors # {}
    /\ \E b \in divisors : bag_size[b] >= 2

(***************************************************************************)
(* C7  Max-mode determinism under ties: for every bag and feature the      *)
(* forward pass records as argmax the index of the lookup at the lowest    *)
(* position among those with the maximal weight value, and the max-mode    *)
(* backward pass adds the bag's gradient for the feature to that index's   *)
(* row and to no other row.                                                *)
(***************************************************************************)
BagPositions(b) == fwd_begin(b) .. (fwd_end(b) - 1)

WeightAt(p, f) == weight[indices[p] * weight_stride0 + f * weight_stride1]

IsFirstMax(b, f, p) ==
    /\ p \in BagPositions(b)
    /\ \A q \in BagPositions(b) :
          /\ ~RatLess(WeightAt(p, f), WeightAt(q, f))
          /\ q < p => RatLess(WeightAt(q, f), WeightAt(p, f))

FirstMaxBags(r, f) ==
    {b \in Arr(numBags) : \E p \in BagPositions(b) : IsFirstMax(b, f, p) /\ indices[p] = r}

RECURSIVE SumGrad(_, _)
SumGrad(B, f) ==
    IF B = {} THEN Zero
    ELSE LET b == CHOOSE x \in B : TRUE
         IN  RatAdd(grad[b * Stride + f], SumGrad(B \ {b}, f))

C7_MaxTieDeterminism ==
    (mode = MODE_MAX /\ pc # "forward") =>
        /\ \A b \in Arr(numBags), f \in Arr(Stride) :
              /\ BagPositions(b) # {} => \E p \in BagPositions(b) : IsFirstMax(b, f, p)
              /\ \A p \in BagPositions(b) :
                    IsFirstMax(b, f, p) =>
                        /\ max_indices[b * Stride + f] = indices[p]
                        /\ output[b * Stride + f] = WeightAt(p, f)
        /\ pc = "done" =>
              \A r \in Arr(NumWeights), f \in Arr(Stride) :
                  grad_weight[r * Stride + f] = SumGrad(FirstMaxBags(r, f), f)

C7_Witness ==
    /\ mode = MODE_MAX
    /\ pc = "done"
    /\ \E b \in Arr(numBags), f \in Arr(Stride) :
          \E p, q \in BagPositions(b) :
              /\ p < q
              /\ indices[p] # indices[q]
              /\ IsFirstMax(b, f, p)
              /\ WeightAt(p, f) = WeightAt(q, f)
              /\ grad_weight[indices[p] * Stride + f] # Zero
              /\ grad_weight[indices[q] * Stride + f] = Zero

(***************************************************************************)
(* C8  Max-mode backward scatter: under every interleaving of the workers  *)
(* the gradient cell (r, f) holds the sum of grad[b][f] over the bags b    *)
(* whose worker for f has run and whose recorded argmax for f is r, so     *)
(* that at the end it is the sum over all such bags; a bag whose recorded  *)
(* index is negative adds nothing and a row recorded by no bag stays zero. *)
(***************************************************************************)
MaxWorkerOf(b, f) ==
    <<b * max_chunksPerBag + f \div MaxWorkersPerChunk, f % MaxWorkersPerChunk>>

RecordedBags(r, f) == {b \in Arr(max_numBags) : max_indices[b * Stride + f] = r}

C8_MaxBackwardScatter ==
    (pc \in {"maxscatter", "done"} /\ mode = MODE_MAX /\ indices = <<>>) =>
        /\ \A r \in Arr(NumWeights), f \in Arr(Stride) :
              grad_weight[r * Stride + f] =
                  SumGrad({b \in RecordedBags(r, f) : MaxWorkerOf(b, f) \in items_done}, f)
        /\ pc = "done" =>
              /\ items_done = max_workers
              /\ \A r \in Arr(NumWeights), f \in Arr(Stride) :
                    /\ grad_weight[r * Stride + f] = SumGrad(RecordedBags(r, f), f)
                    /\ RecordedBags(r, f) = {} => grad_weight[r * Stride + f] = Zero

C8_Witness ==
    /\ pc = "done"
    /\ mode = MODE_MAX
    /\ indices = <<>>
    /\ \E r \in Arr(NumWeights), f \in Arr(Stride) :
          /\ Cardinality(RecordedBags(r, f)) >= 2
          /\ grad_weight[r * Stride + f] # Zero
    /\ \E c \in DOMAIN max_indices : max_indices[c] < 0

(***************************************************************************)
(* C9  In sum_and_scatter every gradient cell is written by at most one    *)
(* work item and at most once: distinct segments have distinct index       *)
(* values, each (segment, feature) pair with feature < stride belongs to   *)
(* exactly one work item, and whatever the order of the work items the     *)
(* result is the one of running them in the order of their ids.            *)
(***************************************************************************)
ItemsOf(id, f) ==
    {gid \in Arr(total_items(num_of_segments)) :
        item_active(gid, num_of_segments) /\ item_id(gid) = id /\ item_feature(gid) = f}

C9_DisjointScatterWrites ==
    (pc \in {"scatter", "done"} /\ sorted_indices # <<>>) =>
        /\ \A c \in DOMAIN writers : Cardinality(writers[c]) <= 1
        /\ \A s, t \in Arr(num_of_segments) :
              s # t => scatter_target_row(s) # scatter_target_row(t)
        /\ \A id \in Arr(num_of_segments), f \in Arr(Stride) :
              Cardinality(ItemsOf(id, f)) = 1
        /\ \A g, h \in items_done :
              (g # h /\ scatter_stores(g) /\ scatter_stores(h)) =>
                  scatter_cell(g) # scatter_cell(h)
        /\ pc = "done" =>
              grad_weight = scatter_all(0, total_items(num_of_segments),
                                        [c \in DOMAIN grad_weight |-> Zero])

C9_Witness ==
    /\ pc = "done"
    /\ num_of_segments >= 2
    /\ Cardinality(items_done) >= 2 * Stride
    /\ Cardinality({c \in DOMAIN writers : writers[c] # {}}) >= 2 * Stride

(***************************************************************************)
(* C10  NaN propagation in the min/max reduction: for every non-empty      *)
(* input and every order of reduce and combine steps, if an input element  *)
(* is NaN then both the min output and the max output are NaN.             *)
(***************************************************************************)
HasNaN == \E i \in DOMAIN mm_input : isnan(mm_input[i])

C10_NaNPropagation ==
    (pc = "done" /\ mm_input # <<>> /\ HasNaN) =>
        \A t \in mm_alive : mm_acc[t] = <<NaN, NaN>>

C10_Witness ==
    /\ pc = "done"
    /\ HasNaN
    /\ \E i, j \in DOMAIN mm_input : i < j /\ isnan(mm_input[i]) /\ ~isnan(mm_input[j])
    /\ \E i, j \in DOMAIN mm_input : i < j /\ ~isnan(mm_input[i]) /\ isnan(mm_input[j])
    /\ \A t \in mm_alive : mm_acc[t] = <<NaN, NaN>>

(***************************************************************************)
(* C11  Empty-input identities: all() of an input with no element fills    *)
(* the result with 1 and any() fills it with 0, and no reduction kernel    *)
(* is submitted; for an input with elements all() is the AND and any()     *)
(* the OR of the truth values of the elements, every accumulator starting  *)
(* from true and false respectively.                                       *)
(***************************************************************************)
AllTrue == \A i \in DOMAIN lg_input : lg_input[i] # 0
SomeTrue == \E i \in DOMAIN lg_input : lg_input[i] # 0

C11_EmptyInputIdentities ==
    /\ (pc = "done" /\ lg_op = "all") =>
          /\ lg_result[0] = (IF AllTrue THEN 1 ELSE 0)
          /\ Numel(lg_input) = 0 => (lg_result[0] = 1 /\ submitted = <<>>)
          /\ Numel(lg_input) > 0 => submitted = <<"and_kernel">>
    /\ (pc = "done" /\ lg_op = "any") =>
          /\ lg_result[0] = (IF SomeTrue THEN 1 ELSE 0)
          /\ Numel(lg_input) = 0 => (lg_result[0] = 0 /\ submitted = <<>>)
          /\ Numel(lg_input) > 0 => submitted = <<"or_kernel">>
    /\ (pc = "lreduce" /\ lg_pending = DOMAIN lg_input) =>
          \A t \in lg_alive : lg_acc[t] = (lg_op = "all")

C11_Witness ==
    /\ pc = "done"
    /\ lg_op = "all"
    /\ Numel(lg_input) = 0
    /\ lg_result[0] = 1
    /\ submitted = <<>>

(***************************************************************************)
(* C12  Forward aggregation: for every bag b and feature f the output is   *)
(* in SUM mode the sum over the bag's lookups of weight[index][f], each    *)
(* times the lookup's per-sample weight when given; in MEAN mode that sum  *)
(* divided by the number of lookups, or 0 for an empty bag; in MAX mode    *)
(* the largest weight[index][f] of the bag with max_indices an index of    *)
(* the bag that has this value, or output 0 and index -1 for an empty bag. *)
(***************************************************************************)
ForwardRan == submitted # <<>> /\ submitted[1] = "EmbeddingBag_updateOutputKernel"

RECURSIVE RefBagSum(_, _, _)
RefBagSum(p, e, f) ==
    IF p >= e THEN Zero
    ELSE RatAdd(RatMul(IF per_sample_weights.defined
                       THEN per_sample_weights.data[p] ELSE One,
                       WeightAt(p, f)),
                RefBagSum(p + 1, e, f))

C12_ForwardAggregation ==
    ForwardRan =>
        \A b \in Arr(numBags), f \in Arr(Stride) :
            LET begin == offsets[b]
                end == IF b = numBags - 1 THEN numIndices ELSE offsets[b + 1]
                out == output[b * Stride + f]
                total == RefBagSum(begin, end, f)
            IN  /\ mode = MODE_SUM => out = total
                /\ mode = MODE_MEAN =>
                      out = (IF end = begin THEN Zero
                             ELSE RatDiv(total, FromInt(end - begin)))
                /\ mode = MODE_MAX =>
                      IF end = begin
                      THEN out = Zero /\ max_indices[b * Stride + f] = -1
                      ELSE /\ \A p \in begin .. (end - 1) : ~RatLess(out, WeightAt(p, f))
                           /\ \E p \in begin .. (end - 1) :
                                 /\ WeightAt(p, f) = out
                                 /\ max_indices[b * Stride + f] = indices[p]

C12_Witness ==
    /\ ForwardRan
    /\ pc = "backward"
    /\ mode = MODE_SUM
    /\ per_sample_weights.defined
    /\ \E b \in Arr(numBags) : fwd_end(b) - fwd_begin(b) >= 2
    /\ \E b \in Arr(numBags) : fwd_end(b) = fwd_begin(b)
    /\ \E c \in DOMAIN output : output[c] # Zero

(***************************************************************************)
(* C13  Determinism of forward pooling in SUM and MEAN mode: under every   *)
(* interleaving of the workers every output cell (bag, feature) is         *)
(* written exactly once by one worker, also when the chunks outnumber the  *)
(* slices of the grid and work items loop, and the value written is the    *)
(* one function of the arguments, never the content of an unwritten cell;  *)
(* so every run on the same arguments ends with the same output.           *)
(***************************************************************************)
OutputCells == Arr(numBags * featureSize)

C13_ForwardDeterminism ==
    (pc \in {"fwd_items", "fwd_done"} /\ mode \in {MODE_SUM, MODE_MEAN}) =>
        /\ \A chunk \in Arr(numChunks) : Cardinality(fwd_visits(chunk)) = 1
        /\ \A c \in OutputCells :
              /\ Cardinality(writers[<<"output", c>>]) <= 1
              /\ writers[<<"output", c>>] \subseteq items_done
              /\ writers[<<"output", c>>] # {} =>
                    (IsNum(output[c]) /\ output[c] = updateOutput_output[c])
        /\ pc = "fwd_done" =>
              /\ output = updateOutput_output
              /\ \A c \in OutputCells :
                    Cardinality(writers[<<"output", c>>]) = 1 /\ IsNum(output[c])

C13_Witness ==
    /\ pc = "fwd_done"
    /\ mode = MODE_MEAN
    /\ numChunks > fwd_step
    /\ \E b \in Arr(numBags) : fwd_end(b) - fwd_begin(b) >= 2
    /\ \A c \in OutputCells : Cardinality(writers[<<"output", c>>]) = 1

(***************************************************************************)
(* C14  offset2bag side effect: when the forward pass has completed,       *)
(* offset2bag[p] = b for every bag b and every lookup position p of its    *)
(* range; a position is written only by the feature-0 worker of its bag,   *)
(* so with non-decreasing offsets no position has two writers.             *)
(***************************************************************************)
C14_Offset2BagSideEffect ==
    pc \in {"fwd_items", "fwd_done"} =>
        /\ \A p \in Arr(numIndices) :
              /\ Cardinality(writers[<<"offset2bag", p>>]) <= 1
              /\ \A w \in writers[<<"offset2bag", p>>] :
                    /\ fwd_featureDim(w) = 0
                    /\ fwd_begin(fwd_bag(w)) <= p /\ p < fwd_end(fwd_bag(w))
                    /\ offset2bag[p] = fwd_bag(w)
        /\ pc = "fwd_done" =>
              \A b \in Arr(numBags) :
                  \A p \in fwd_begin(b) .. (fwd_end(b) - 1) :
                      offset2bag[p] = b /\ writers[<<"offset2bag", p>>] # {}

C14_Witness ==
    /\ pc = "fwd_done"
    /\ Cardinality({b \in Arr(numBags) : fwd_end(b) > fwd_begin(b)}) >= 2
    /\ \E b \in Arr(numBags) : fwd_end(b) = fwd_begin(b)
    /\ \A p \in Arr(numIndices) : offset2bag[p] # UninitInt

(***************************************************************************)
(* C15  Unknown mode: the dense backward dispatch called with a mode that  *)
(* is none of SUM, MEAN, MAX fails at once with the unknown-mode error,    *)
(* returns no gradient and submits no sort, segment or scatter kernel;     *)
(* SUM and MEAN run the segmented path and MAX runs the atomic scatter.    *)
(***************************************************************************)
ForwardKernel == <<"EmbeddingBag_updateOutputKernel">>
SegmentedPath ==
    <<"sort", "segment_offsets", "krn_partials_per_segment", "exclusive_scan",
      "krn_partial_segment_offset", "compute_grad_weight_bags", "sum_and_scatter">>

C15_UnknownMode ==
    (ForwardRan /\ pc \notin {"backward", "fwd_items", "fwd_done"}) =>
        /\ mode \notin {MODE_SUM, MODE_MEAN, MODE_MAX} =>
              /\ pc = "failed"
              /\ error = "Unknown mode for embedding_bag_backward_dpcpp"
              /\ grad_weight = <<>>
              /\ submitted = ForwardKernel
              /\ sorted_indices = <<>> /\ segment_offsets = <<>>
        /\ mode \in {MODE_SUM, MODE_MEAN, MODE_MAX} => (pc # "failed" /\ error = "none")
        /\ (pc = "done" /\ mode \in {MODE_SUM, MODE_MEAN}) =>
              submitted = (IF numIndices = 0 THEN ForwardKernel
                           ELSE ForwardKernel \o SegmentedPath)
        /\ (pc = "done" /\ mode = MODE_MAX) =>
              submitted = ForwardKernel \o <<"EmbeddingBag_accGradParametersKernel_max">>

C15_Witness ==
    /\ pc = "failed"
    /\ mode = MODE_MAX + 1
    /\ numIndices > 0
    /\ error = "Unknown mode for embedding_bag_backward_dpcpp"
    /\ grad_weight = <<>>

(***************************************************************************)
(* C16  Precondition violations are reported before any kernel launch: a   *)
(* forward call whose indices or offsets are not int64 or are on another   *)
(* device than weight, an argmax, argmin or _aminmax call on an input      *)
(* with no element, and an _aminmax call on a complex input fail with an   *)
(* error while no kernel has been submitted and no output buffer has been  *)
(* allocated or filled; a call that breaks none of them does not fail.     *)
(***************************************************************************)
PreconditionBroken ==
    IF args.op = "embedding_bag"
    THEN \/ args.indices_dtype # "Long"
         \/ args.offsets_dtype # "Long"
         \/ args.indices_device # args.weight_device
         \/ args.offsets_device # args.weight_device
    ELSE IF args.op = "aminmax"
    THEN args.is_complex \/ Numel(mm_input) = 0
    ELSE Numel(mm_input) = 0

C16_PreconditionChecks ==
    pc \notin {"forward", "argmax", "argmin", "aminmax"} =>
        /\ PreconditionBroken <=> pc = "failed"
        /\ pc = "failed" =>
              /\ error # "none"
              /\ submitted = <<>>
              /\ output = <<>> /\ offset2bag = <<>> /\ bag_size = <<>>
              /\ max_indices = <<>>
              /\ lg_result = <<>>
              /\ mm_acc = <<>>
        /\ pc # "failed" => (error = "none" /\ submitted # <<>>)

C16_Witness ==
    /\ pc = "failed"
    /\ args.op = "embedding_bag"
    /\ args.offsets_device # args.weight_device
    /\ args.indices_dtype = "Long" /\ args.offsets_dtype = "Long"
    /\ numIndices > 0
    /\ submitted = <<>>

\* the sum of the contributions of the lookups of row r before any frequency
\* scale is applied
RECURSIVE UnscaledSum(_, _, _)
UnscaledSum(p, r, f) ==
    IF p = 0 THEN Zero
    ELSE LET g == grad[offset2bag[p - 1] * Stride + f]
             m == IF mode = MODE_MEAN
                  THEN RatDiv(g, FromInt(LookupsOfBag(offset2bag[p - 1]))) ELSE g
         IN  RatAdd(UnscaledSum(p - 1, r, f),
                    IF indices[p - 1] = r THEN m ELSE Zero)

CountComputed ==
    \/ pc \in {"segments", "partials", "scan", "psoffset", "grad", "scatter"}
    \/ pc = "done" /\ mode \in {MODE_SUM, MODE_MEAN} /\ numIndices > 0

\* C17: with frequency scaling on, count[p] of every sorted position p is the
\* number of occurrences of sorted_indices[p] in the whole index stream and
\* the gradient row of an index is the unscaled sum of its contributions
\* divided by that number; with frequency scaling off no count is kept and
\* every contribution is accumulated with scale 1.
C17_FrequencyScaling ==
    /\ (CountComputed /\ scale_grad_by_freq) =>
           /\ count.defined
           /\ \A p \in Arr(numIndices) :
                  count.data[p] = Occurrences(sorted_indices[p])
    /\ (CountComputed /\ ~scale_grad_by_freq) =>
           /\ ~count.defined
           /\ ~per_sample_weights.defined =>
                  \A idx \in Arr(numIndices) : bags_scale(idx) = One
    /\ (pc = "done" /\ CountComputed /\ ~per_sample_weights.defined) =>
           \A r \in Occurring \ {padding_idx}, f \in Arr(Stride) :
               grad_weight[r * Stride + f] =
                   IF scale_grad_by_freq
                   THEN RatDiv(UnscaledSum(numIndices, r, f),
                               FromInt(Occurrences(r)))
                   ELSE UnscaledSum(numIndices, r, f)

C17_Witness ==
    /\ pc = "done"
    /\ scale_grad_by_freq
    /\ ~per_sample_weights.defined
    /\ count.defined
    /\ \E p, q \in Arr(numIndices) :
           /\ p < q
           /\ indices[p] = indices[q]
           /\ indices[p] # padding_idx
           /\ \E f \in Arr(Stride) :
                  /\ UnscaledSum(numIndices, indices[p], f) # Zero
                  /\ grad_weight[indices[p] * Stride + f]
                         # UnscaledSum(numIndices, indices[p], f)
    /\ \E p \in Arr(numIndices) : count.data[p] = 1

\* the value compute_grad_weight_bags and sum_and_scatter leave in feature f of
\* row r when the sort stage returned the permutation order: the loop's terms
\* over the sorted positions below p that hold index r
RECURSIVE GradOfOrder(_, _, _, _)
GradOfOrder(order, p, r, f) ==
    IF p = 0 THEN Zero
    ELSE LET idx == p - 1
             bag == offset2bag[order[idx]]
             g == grad[bag * Stride + f]
             m == IF mode_mean THEN RatDiv(g, FromInt(bag_size[bag])) ELSE g
         IN  RatAdd(GradOfOrder(order, idx, r, f),
                    IF indices[order[idx]] = r
                    THEN RatMul(m, bags_scale(idx)) ELSE Zero)

BackwardReturned == pc = "done" /\ mode \in {MODE_SUM, MODE_MEAN} /\ numIndices > 0

\* the returned gradient is the value of the pipeline for the order the sort
\* stage of this call returned
GradIsOfTakenOrder ==
    BackwardReturned =>
        \A r \in Occurring, f \in Arr(Stride) :
            grad_weight[r * Stride + f] = GradOfOrder(orig_indices, numIndices, r, f)

\* C18: the returned gradient does not depend on how the sort orders pairs
\* with equal index: it equals the value of the rest of the pipeline for
\* every permutation the sort stage may return, with and without frequency
\* scaling, MEAN mode and per-sample weights.
C18_SortOrderIndependence ==
    BackwardReturned =>
        \A order \in SortOutcomes(indices) :
            \A r \in Occurring, f \in Arr(Stride) :
                grad_weight[r * Stride + f] = GradOfOrder(order, numIndices, r, f)

\* the same statement for the calls without per-sample weights
SortOrderIndependenceUnweighted ==
    (BackwardReturned /\ ~per_sample_weights.defined) => C18_SortOrderIndependence

\* the kernels of one call of embedding_bag_backward_dpcpp_kernel in the order
\* of their submission, and the number of them a call at pc has submitted
KernelStages ==
    <<"segment_offsets", "krn_partials_per_segment", "exclusive_scan",
      "krn_partial_segment_offset", "compute_grad_weight_bags", "sum_and_scatter">>

StagesBefore ==
    [segments |-> 0, partials |-> 1, scan |-> 2, psoffset |-> 3, grad |-> 4,
     scatter |-> 5, done |-> 6]

WrittenInt(buf, c) == c \in DOMAIN buf /\ buf[c] # UninitInt
WrittenVal(buf, c) == c \in DOMAIN buf /\ buf[c] # UninitVal

\* the work items of krn_partial_segment_offset that store into slot k
partial_segment_offset_writers(k) ==
    {id \in {i \in KrnItems(num_of_segments) : i < num_of_segments} :
        k - partials_per_segment_offset[id] \in 0 .. (partials_per_segment[id] - 1)}

\* the work items of compute_grad_weight_bags that store into cell c
grad_weight_per_segment_writers(c) ==
    {gid \in Arr(total_items(num_of_partial_segments)) :
        item_active(gid, num_of_partial_segments) /\ bags_cell(gid) = c}

\* the cells each stage reads are written when the stage is about to run
PartialsReads ==
    \A id \in Arr(num_of_segments) :
        /\ WrittenInt(segment_offsets, id)
        /\ id # num_of_segments - 1 => WrittenInt(segment_offsets, id + 1)

ScanReads ==
    \A id \in Arr(num_of_segments) : WrittenInt(partials_per_segment, id)

OffsetReads ==
    \A id \in Arr(num_of_segments) :
        /\ WrittenInt(partials_per_segment, id)
        /\ WrittenInt(partials_per_segment_offset, id)
        /\ WrittenInt(segment_offsets, id)

BagsReads ==
    \A id \in Arr(num_of_partial_segments) :
        /\ WrittenInt(partial_segment_offset, id)
        /\ Cardinality(partial_segment_offset_writers(id)) = 1
        /\ id # num_of_partial_segments - 1 =>
               WrittenInt(partial_segment_offset, id + 1)

ScatterReads ==
    \A id \in Arr(num_of_segments) :
        /\ WrittenInt(partials_per_segment_offset, id)
        /\ id # num_of_segments - 1 => WrittenInt(partials_per_segment_offset, id + 1)
        /\ WrittenInt(segment_offsets, id)
        /\ \A idx \in scatter_idx_begin(id) .. (scatter_idx_end(id) - 1),
              f \in Arr(Stride) :
              /\ WrittenVal(grad_weight_per_segment, idx * Stride + f)
              /\ Cardinality(grad_weight_per_segment_writers(idx * Stride + f)) = 1

\* C19: the stages of one backward call are submitted in the order segment
\* discovery, partial count, exclusive scan, partial-segment offsets, partial
\* gradient accumulation, sum-and-scatter, and every cell of an intermediate
\* buffer a stage reads was written, exactly once, by the earlier stage that
\* fills the buffer.
C19_CrossStageOrdering ==
    /\ pc \in DOMAIN StagesBefore
    /\ submitted = SubSeq(KernelStages, 1, StagesBefore[pc])
    /\ pc = "partials" => PartialsReads
    /\ pc = "scan" => ScanReads
    /\ pc = "psoffset" => OffsetReads
    /\ pc = "grad" => BagsReads
    /\ pc \in {"scatter", "done"} => ScatterReads

C19_Witness ==
    /\ pc = "done"
    /\ submitted = KernelStages
    /\ num_of_segments >= 2
    /\ num_of_partial_segments > num_of_segments
    /\ \E c \in DOMAIN segment_offsets : segment_offsets[c] = UninitInt

\* the sum of the partial counts of the segments below s
RECURSIVE CountsBelow(_)
CountsBelow(s) ==
    IF s = 0 THEN 0 ELSE CountsBelow(s - 1) + partials_per_segment[s - 1]

\* the slots of the flattened array that belong to segment s
SlotsOf(s) ==
    partials_per_segment_offset[s] ..
        (partials_per_segment_offset[s] + partials_per_segment[s] - 1)

\* the rows of the partial-sum buffer the work items of segment s add up
RowsSummedFor(s) == scatter_idx_begin(s) .. (scatter_idx_end(s) - 1)

RECURSIVE SumOfRows(_, _)
SumOfRows(rows, f) ==
    IF rows = {} THEN Zero
    ELSE LET j == CHOOSE x \in rows : TRUE
         IN  RatAdd(grad_weight_per_segment[j * Stride + f],
                    SumOfRows(rows \ {j}, f))

\* C20: the scan offsets are the exclusive prefix sums of the partial counts;
\* segment s stores segment_offset[s] + k * NROWS_PER_THREAD for k below its
\* count into the slots scan[s] .. scan[s] + count[s] - 1; the slices of the
\* segments are disjoint and fill the slots 0 .. num_of_partial_segments - 1
\* exactly once, num_of_partial_segments being count[last] + scan[last], the
\* sum of all counts; the flattened array increases strictly; sum_and_scatter
\* adds up, for segment s, exactly the partial-sum rows of the partial
\* segments of s.
C20_FlattenedLayout ==
    /\ (pc \in {"psoffset", "grad", "scatter", "done"}) =>
           /\ \A s \in Arr(num_of_segments) :
                  partials_per_segment_offset[s] = CountsBelow(s)
           /\ num_of_partial_segments =
                  partials_per_segment[num_of_segments - 1]
                      + partials_per_segment_offset[num_of_segments - 1]
           /\ num_of_partial_segments = CountsBelow(num_of_segments)
           /\ \A slot \in Arr(num_of_partial_segments) :
                  Cardinality({s \in Arr(num_of_segments) : slot \in SlotsOf(s)}) = 1
           /\ \A s \in Arr(num_of_segments) :
                  SlotsOf(s) \subseteq Arr(num_of_partial_segments)
    /\ (pc \in {"grad", "scatter", "done"}) =>
           /\ DOMAIN partial_segment_offset = Arr(num_of_partial_segments)
           /\ \A s \in Arr(num_of_segments) :
                  \A k \in 0 .. (partials_per_segment[s] - 1) :
                      partial_segment_offset[partials_per_segment_offset[s] + k]
                          = segment_offsets[s] + k * NROWS_PER_THREAD
           /\ \A j \in Arr(num_of_partial_segments) :
                  j > 0 => partial_segment_offset[j - 1] < partial_segment_offset[j]
           /\ \A s \in Arr(num_of_segments) :
                  /\ RowsSummedFor(s) = SlotsOf(s)
                  /\ RowsSummedFor(s) = PartialsOf(s)
    /\ pc = "done" =>
           \A s \in Arr(num_of_segments) :
               sorted_indices[segment_offsets[s]] # padding_idx =>
                   \A f \in Arr(Stride) :
                       grad_weight[sorted_indices[segment_offsets[s]] * Stride + f]
                           = SumOfRows(PartialsOf(s), f)

C20_Witness ==
    /\ pc = "done"
    /\ num_of_segments >= 2
    /\ \E s \in Arr(num_of_segments) :
          /\ s > 0
          /\ partials_per_segment[s] >= 2
          /\ partials_per_segment[s - 1] >= 2
          /\ sorted_indices[segment_offsets[s]] # padding_idx
          /\ \E f \in Arr(Stride), j \in PartialsOf(s) :
                /\ grad_weight_per_segment[j * Stride + f] # Zero
                /\ grad_weight[sorted_indices[segment_offsets[s]] * Stride + f]
                       # grad_weight_per_segment[j * Stride + f]

\* the tensor each optional kernel pointer is meant for
IntendedBuffer ==
    [count_ptr |-> "count", per_sample_weights_ptr |-> "per_sample_weights",
     max_indices_ptr |-> "max_indices"]

\* the <<pointer, buffer>> pairs EmbeddingBag_updateOutputKernel dereferences:
\* per_sample_weights_ptr in the iterations of the sum, max_indices_ptr in
\* the store of the MAX branch
fwd_derefs ==
    (IF mode # MODE_MAX /\ per_sample_weights.defined
        /\ \E w \in fwd_workers : fwd_begin(fwd_bag(w)) < fwd_end(fwd_bag(w))
     THEN {<<"per_sample_weights_ptr", fwd_per_sample_weights_data>>} ELSE {})
    \cup
    (IF fwd_stores_max_indices /\ fwd_workers # {}
     THEN {<<"max_indices_ptr", fwd_max_indices_data>>} ELSE {})

\* the <<pointer, buffer>> pairs the loop iterations of compute_grad_weight_bags
\* dereferences
bags_derefs ==
    IF \E gid \in Arr(total_items(num_of_partial_segments)) :
           /\ item_active(gid, num_of_partial_segments)
           /\ bags_idx_begin(item_id(gid)) < bags_idx_end(item_id(gid))
    THEN (IF bags_count_ptr # NULL THEN {<<"count_ptr", bags_count_ptr>>} ELSE {})
         \cup
         (IF per_sample_weights.defined
          THEN {<<"per_sample_weights_ptr", bags_per_sample_weights_ptr>>} ELSE {})
    ELSE {}

ForwardKernelRan ==
    \E i \in DOMAIN submitted : submitted[i] = "EmbeddingBag_updateOutputKernel"
BagsKernelRan ==
    \E i \in DOMAIN submitted : submitted[i] = "compute_grad_weight_bags"

InputValues == {mm_input[i] : i \in DOMAIN mm_input}
InputMin == CHOOSE m \in InputValues : \A v \in InputValues : m <= v
InputMax == CHOOSE m \in InputValues : \A v \in InputValues : v <= m

\* C22: folding a non-empty sequence of non-NaN values, positive and
\* negative infinity included, into the initial accumulator with reduce and
\* combine yields exactly the minimum and the maximum of the sequence.
C22_MinMaxExact ==
    (pc = "done" /\ mm_input # <<>> /\ ~HasNaN) =>
        \A t \in mm_alive : mm_acc[t] = <<InputMin, InputMax>>

\* the same statement for the sequences that hold a value not above the
\* largest finite value and a value not below the lowest finite value
MinMaxExactWithinIdentity ==
    (pc = "done" /\ mm_input # <<>> /\ ~HasNaN
        /\ InputMin <= ident[1] /\ InputMax >= ident[2]) =>
        \A t \in mm_alive : mm_acc[t] = <<InputMin, InputMax>>

IndexVariables ==
    {"num_of_partial_segments", "gid", "id", "startFeature", "idx_begin",
     "idx_end", "orig_row", "seq_number", "grad_output_row"}

\* C23: the work-item id, the segment id, idx_begin and idx_end, the original
\* row, the bag number, the gradient-row offset and the number of partial
\* segments, held in int variables, equal the values of exact integer
\* arithmetic for every input whose sizes fit the 64-bit parameters.
C23_IndexArithmeticExact ==
    ix # <<>> => \A v \in IndexVariables : ix[v].int = ix[v].exact

\* the same statement for the calls whose values all fit int
IndexArithmeticExactWithinInt ==
    (ix # <<>> /\ \A v \in IndexVariables : ix[v].exact <= IndexIntMax) =>
        \A v \in IndexVariables : ix[v].int = ix[v].exact
====
